---- MODULE Spec2Model ----
(***************************************************************************)
(* A model of the AliasVault core engine: the Last-Write-Wins vault merge  *)
(* (vault_merge), the SRP-6a client/server operations (srp) and the        *)
(* credential matcher (credential_matcher).  Every operation of the core   *)
(* is a pure function of its input; each specification below draws the     *)
(* input of one subsystem from a bounded set and applies the operations.   *)
(***************************************************************************)
EXTENDS Integers, Sequences, FiniteSets, TLC

VARIABLES
    pc,        \* which operation ran last
    input,     \* MergeInput: [local_tables, server_tables]
    output,    \* MergeOutput of merge_vaults(input)
    applied,   \* the local tables after the host applied output.statements
    replay     \* MergeOutput of merge_vaults on the applied tables

vars == <<pc, input, output, applied, replay>>

(***************************************************************************)
(* Option<T>: None is the empty set, Some(x) the singleton.                *)
(***************************************************************************)
None == {}
Some(x) == {x}
IsSome(o) == o # {}
Unwrap(o) == CHOOSE x \in o : TRUE

(***************************************************************************)
(* serde_json::Value.  A string is a sequence of characters; every other   *)
(* JSON value keeps its text so that values of both kinds compare.         *)
(***************************************************************************)
JStr(s) == [ty |-> "string", v |-> s]
JNum(s) == [ty |-> "number", v |-> s]
as_str(value) == IF value.ty = "string" THEN Some(value.v) ELSE None

\* Record = HashMap<String, Value>: a function from column names to values.
record_get(record, col) == IF col \in DOMAIN record THEN Some(record[col]) ELSE None
record_is_empty(record) == DOMAIN record = {}

\* HashMap<String, &Record>
MapInsert(map, k, val) == [x \in (DOMAIN map) \cup {k} |-> IF x = k THEN val ELSE map[x]]
MapRemove(map, k) == [x \in (DOMAIN map) \ {k} |-> map[x]]
EmptyMap == [x \in {} |-> x]

\* All orders in which a HashMap with key set S can be iterated.
IterationOrders(S) == {p \in [1..Cardinality(S) -> S] : \A k \in S : \E i \in DOMAIN p : p[i] = k}

(***************************************************************************)
(*                      vault_merge: Last-Write-Wins                       *)
(***************************************************************************)

\* shared/rust-core types.rs: the syncable tables, in declared order.
TableConfig(name, columns) == [name |-> name, composite_key_columns |-> columns]
SYNCABLE_TABLES ==
    << TableConfig("Items", <<>>),
       TableConfig("FieldValues", <<"ItemId", "FieldKey">>),
       TableConfig("Folders", <<>>),
       TableConfig("Tags", <<>>),
       TableConfig("ItemTags", <<>>),
       TableConfig("Attachments", <<>>),
       TableConfig("TotpCodes", <<>>),
       TableConfig("Passkeys", <<>>),
       TableConfig("FieldDefinitions", <<>>),
       TableConfig("FieldHistories", <<>>),
       TableConfig("Logos", <<>>) >>
uses_composite_key(table_config) == Len(table_config.composite_key_columns) # 0

\* The column names of the modelled records in the order Vec<&String>::sort
\* puts them (byte order of the names).
ColumnOrder == <<"DeletedAt", "FieldKey", "Id", "IsDeleted", "ItemId", "Name", "UpdatedAt">>
RECURSIVE SortedFrom(_, _)
SortedFrom(cols, i) ==
    IF i > Len(ColumnOrder) THEN <<>>
    ELSE (IF ColumnOrder[i] \in cols THEN <<ColumnOrder[i]>> ELSE <<>>) \o SortedFrom(cols, i + 1)
SortColumns(cols) == SortedFrom(cols, 1)

MergeStatsDefault ==
    [tables_processed |-> 0, records_from_local |-> 0, records_from_server |-> 0,
     records_created_locally |-> 0, conflicts |-> 0, records_inserted |-> 0]

(***************************************************************************)
(* Timestamps.  The text of a date-time is a sequence of tokens:           *)
(*   RFC 3339   <<"D", "T", h, z>>   date, 'T', the hour, the zone         *)
(*   SQLite     <<"D", " ", h>>      date, blank, the hour (no zone)       *)
(* "D" stands for one fixed date and "D-30" for the date thirty days       *)
(* before it; h is an hour digit and z is "Z" or "+01:00".  Anything else  *)
(* does not parse.  An instant is a number of hours counted from "D" 0h.   *)
(***************************************************************************)
Dates == {"D", "D-30"}
DayOf(d) == IF d = "D-30" THEN -30 ELSE 0
HourDigits == {"0", "1", "2", "3"}
HourOf(h) == CASE h = "0" -> 0 [] h = "1" -> 1 [] h = "2" -> 2 [] h = "3" -> 3
ZoneOffset(z) == IF z = "+01:00" THEN 1 ELSE 0

\* DateTime::parse_from_rfc3339: a local time and its offset.
parse_from_rfc3339(s) ==
    IF Len(s) = 4 /\ s[1] \in Dates /\ s[2] = "T" /\ s[3] \in HourDigits /\ s[4] \in {"Z", "+01:00"}
    THEN Some([local |-> 24 * DayOf(s[1]) + HourOf(s[3]), offset |-> ZoneOffset(s[4])])
    ELSE None
\* dt.with_timezone(&Utc): the instant.
with_timezone_utc(dt) == dt.local - dt.offset
\* NaiveDateTime::parse_from_str(s, "%Y-%m-%d %H:%M:%S%.f") and naive.and_utc()
parse_naive(s) ==
    IF Len(s) = 3 /\ s[1] \in Dates /\ s[2] = " " /\ s[3] \in HourDigits
    THEN Some(24 * DayOf(s[1]) + HourOf(s[3]))
    ELSE None

get_record_id(record) ==
    LET v == record_get(record, "Id")
    IN IF IsSome(v) THEN as_str(Unwrap(v)) ELSE None

parse_timestamp(s) ==
    LET rfc == parse_from_rfc3339(s)
    IN IF IsSome(rfc) THEN Some(with_timezone_utc(Unwrap(rfc))) ELSE parse_naive(s)

get_updated_at(record) ==
    LET v == record_get(record, "UpdatedAt")
        s == IF IsSome(v) THEN as_str(Unwrap(v)) ELSE None
    IN IF IsSome(s) THEN parse_timestamp(Unwrap(s)) ELSE None

\* Option<DateTime<Utc>> ordering: None < Some(_), Some by instant.
OptionGt(a, b) == IsSome(a) /\ (~IsSome(b) \/ Unwrap(a) > Unwrap(b))

\* key_columns joined with ":"; a missing or non-string column counts as "".
RECURSIVE JoinKey(_, _, _)
JoinKey(record, key_columns, i) ==
    IF i > Len(key_columns) THEN <<>>
    ELSE LET v == record_get(record, key_columns[i])
             s == IF IsSome(v) THEN as_str(Unwrap(v)) ELSE None
             part == IF IsSome(s) THEN Unwrap(s) ELSE <<>>
         IN (IF i > 1 THEN <<":">> ELSE <<>>) \o part \o JoinKey(record, key_columns, i + 1)
get_composite_key(record, key_columns) == JoinKey(record, key_columns, 1)

\* The SQL text is kept as its parts: the verb, the table and the column list.
ParamsOf(record, columns) == [i \in 1..Len(columns) |-> record[columns[i]]]

generate_insert_sql(table_name, record) ==
    IF record_is_empty(record) THEN None
    ELSE LET columns == SortColumns(DOMAIN record)
         IN Some([sql |-> [verb |-> "INSERT OR REPLACE INTO", table |-> table_name,
                           columns |-> columns],
                  params |-> ParamsOf(record, columns)])

\* generate_update_sql keyed by the Id of the record it copies.
generate_update_sql_own_id(table_name, record, id) ==
    IF record_is_empty(record) THEN None
    ELSE LET columns == SortColumns((DOMAIN record) \ {"Id"})
             own == get_record_id(record)
         IN IF columns = <<>> THEN None
            ELSE Some([sql |-> [verb |-> "UPDATE", table |-> table_name, columns |-> columns],
                       params |-> Append(ParamsOf(record, columns),
                                         JStr(IF IsSome(own) THEN Unwrap(own) ELSE id))])

generate_update_sql(table_name, record, id) ==
    IF record_is_empty(record) THEN None
    ELSE LET columns == SortColumns((DOMAIN record) \ {"Id"})
         IN IF columns = <<>> THEN None
            ELSE Some([sql |-> [verb |-> "UPDATE", table |-> table_name, columns |-> columns],
                       params |-> Append(ParamsOf(record, columns), JStr(id))])

OptToSeq(o) == IF IsSome(o) THEN <<Unwrap(o)>> ELSE <<>>
Bump(stats, field) == [stats EXCEPT ![field] = @ + 1]

\* Last-Write-Wins on one matched pair: the state after the match arm.
\* resolve_match with the tie given to the server (>= for >).
resolve_match_tie_to_server(table_name, local_id, local_record, server_record, st) ==
    LET local_ts == get_updated_at(local_record)
        server_ts == get_updated_at(server_record)
    IN IF IsSome(server_ts) /\ IsSome(local_ts) /\ Unwrap(server_ts) >= Unwrap(local_ts)
       THEN [st EXCEPT !.stats = Bump(Bump(@, "conflicts"), "records_from_server"),
                       !.statements = @ \o OptToSeq(generate_update_sql(table_name, server_record, local_id))]
       ELSE [st EXCEPT !.stats = Bump(@, "records_from_local")]

\* resolve_match that does not count a record the local replica wins.
resolve_match_uncounted(table_name, local_id, local_record, server_record, st) ==
    LET local_ts == get_updated_at(local_record)
        server_ts == get_updated_at(server_record)
    IN IF IsSome(server_ts) /\ IsSome(local_ts) /\ Unwrap(server_ts) > Unwrap(local_ts)
       THEN [st EXCEPT !.stats = Bump(Bump(@, "conflicts"), "records_from_server"),
                       !.statements = @ \o OptToSeq(generate_update_sql(table_name, server_record, local_id))]
       ELSE st

resolve_match(table_name, local_id, local_record, server_record, st) ==
    LET local_ts == get_updated_at(local_record)
        server_ts == get_updated_at(server_record)
    IN IF IsSome(server_ts) /\ IsSome(local_ts) /\ Unwrap(server_ts) > Unwrap(local_ts)
       THEN [st EXCEPT !.stats = Bump(Bump(@, "conflicts"), "records_from_server"),
                       !.statements = @ \o OptToSeq(generate_update_sql(table_name, server_record, local_id))]
       ELSE [st EXCEPT !.stats = Bump(@, "records_from_local")]

\* The server-only records, in one iteration order of the leftover map.
RECURSIVE InsertLeftover(_, _, _, _, _)

\* InsertLeftover that puts every insert before the statements emitted so far.
InsertLeftover_first(table_name, map, order, i, st) ==
    IF i > Len(order) THEN st
    ELSE InsertLeftover(table_name, map, order, i + 1,
            [st EXCEPT !.stats = Bump(@, "records_inserted"),
                       !.statements = OptToSeq(generate_insert_sql(table_name, map[order[i]])) \o @])

InsertLeftover(table_name, map, order, i, st) ==
    IF i > Len(order) THEN st
    ELSE InsertLeftover(table_name, map, order, i + 1,
            [st EXCEPT !.stats = Bump(@, "records_inserted"),
                       !.statements = @ \o OptToSeq(generate_insert_sql(table_name, map[order[i]]))])

RECURSIVE ServerMapById(_, _, _)
ServerMapById(server_records, i, map) ==
    IF i > Len(server_records) THEN map
    ELSE LET id == get_record_id(server_records[i])
         IN ServerMapById(server_records, i + 1,
                IF IsSome(id) THEN MapInsert(map, Unwrap(id), server_records[i]) ELSE map)

RECURSIVE LocalLoopById(_, _, _, _)
LocalLoopById(table_name, local_records, i, st) ==
    IF i > Len(local_records) THEN st
    ELSE LET local_record == local_records[i]
             id == get_record_id(local_record)
         IN IF ~IsSome(id) THEN LocalLoopById(table_name, local_records, i + 1, st)
            ELSE LET local_id == Unwrap(id)
                 IN IF local_id \in DOMAIN st.map
                    THEN LocalLoopById(table_name, local_records, i + 1,
                            [resolve_match(table_name, local_id, local_record, st.map[local_id], st)
                                EXCEPT !.map = MapRemove(@, local_id)])
                    ELSE LocalLoopById(table_name, local_records, i + 1,
                            [st EXCEPT !.stats = Bump(@, "records_created_locally")])

\* merge_table_by_id: every result the iteration order of server_map allows.
merge_table_by_id(table_name, local_records, server_records, stats) ==
    LET st == LocalLoopById(table_name, local_records, 1,
                  [map |-> ServerMapById(server_records, 1, EmptyMap),
                   statements |-> <<>>, stats |-> stats])
    IN { LET fin == InsertLeftover(table_name, st.map, order, 1, st)
         IN [statements |-> fin.statements, stats |-> fin.stats]
         : order \in IterationOrders(DOMAIN st.map) }

RECURSIVE ServerMapByKey(_, _, _, _)
ServerMapByKey(server_records, key_columns, i, map) ==
    IF i > Len(server_records) THEN map
    ELSE LET record == server_records[i]
             key == get_composite_key(record, key_columns)
         IN ServerMapByKey(server_records, key_columns, i + 1,
                IF key \in DOMAIN map
                THEN (IF OptionGt(get_updated_at(record), get_updated_at(map[key]))
                      THEN MapInsert(map, key, record) ELSE map)
                ELSE MapInsert(map, key, record))

RECURSIVE LocalLoopByKey(_, _, _, _, _)
LocalLoopByKey(table_name, local_records, key_columns, i, st) ==
    IF i > Len(local_records) THEN st
    ELSE LET local_record == local_records[i]
             composite_key == get_composite_key(local_record, key_columns)
             id == get_record_id(local_record)
         IN IF ~IsSome(id) THEN LocalLoopByKey(table_name, local_records, key_columns, i + 1, st)
            ELSE IF composite_key \in DOMAIN st.map
                 THEN LocalLoopByKey(table_name, local_records, key_columns, i + 1,
                         [resolve_match(table_name, Unwrap(id), local_record, st.map[composite_key], st)
                             EXCEPT !.map = MapRemove(@, composite_key)])
                 ELSE LocalLoopByKey(table_name, local_records, key_columns, i + 1,
                         [st EXCEPT !.stats = Bump(@, "records_created_locally")])

merge_table_by_composite_key(table_name, local_records, server_records, key_columns, stats) ==
    LET st == LocalLoopByKey(table_name, local_records, key_columns, 1,
                  [map |-> ServerMapByKey(server_records, key_columns, 1, EmptyMap),
                   statements |-> <<>>, stats |-> stats])
    IN { LET fin == InsertLeftover(table_name, st.map, order, 1, st)
         IN [statements |-> fin.statements, stats |-> fin.stats]
         : order \in IterationOrders(DOMAIN st.map) }

\* HashMap<&str, &TableData> collected from a table list: the last table
\* of a name is the one the map holds.
TableLookup(tables, name) ==
    LET idx == {i \in DOMAIN tables : tables[i].name = name}
    IN IF idx = {} THEN None
       ELSE Some(tables[CHOOSE i \in idx : \A j \in idx : j <= i])

\* The (None, Some(s)) arm: insert every server record.
RECURSIVE InsertAll(_, _, _, _)
InsertAll(table_name, records, i, acc) ==
    IF i > Len(records) THEN acc
    ELSE LET stmt == generate_insert_sql(table_name, records[i])
         IN InsertAll(table_name, records, i + 1,
                IF IsSome(stmt)
                THEN [statements |-> Append(acc.statements, Unwrap(stmt)),
                      stats |-> Bump(acc.stats, "records_inserted")]
                ELSE acc)

\* One iteration of the loop over SYNCABLE_TABLES: the possible accumulators after it.
MergeOneTable(merge_input, table_config, acc) ==
    LET table_name == table_config.name
        local_data == TableLookup(merge_input.local_tables, table_name)
        server_data == TableLookup(merge_input.server_tables, table_name)
    IN CASE IsSome(local_data) /\ IsSome(server_data) ->
              { [statements |-> acc.statements \o r.statements,
                 stats |-> Bump(r.stats, "tables_processed")]
                : r \in (IF uses_composite_key(table_config)
                         THEN merge_table_by_composite_key(table_name, Unwrap(local_data).records,
                                  Unwrap(server_data).records, table_config.composite_key_columns,
                                  acc.stats)
                         ELSE merge_table_by_id(table_name, Unwrap(local_data).records,
                                  Unwrap(server_data).records, acc.stats)) }
         [] IsSome(local_data) /\ ~IsSome(server_data) ->
              { [acc EXCEPT !.stats.records_created_locally = @ + Len(Unwrap(local_data).records)] }
         [] ~IsSome(local_data) /\ IsSome(server_data) ->
              { LET r == InsertAll(table_name, Unwrap(server_data).records, 1, acc)
                IN [r EXCEPT !.stats = Bump(@, "tables_processed")] }
         [] OTHER -> { acc }

RECURSIVE MergeTables(_, _, _)
MergeTables(merge_input, ti, acc) ==
    IF ti > Len(SYNCABLE_TABLES) THEN {acc}
    ELSE UNION { MergeTables(merge_input, ti + 1, next)
                 : next \in MergeOneTable(merge_input, SYNCABLE_TABLES[ti], acc) }

\* merge_vaults: the set of MergeOutput values the call can return.
merge_vaults(merge_input) ==
    { [success |-> TRUE, statements |-> r.statements, stats |-> r.stats]
      : r \in MergeTables(merge_input, 1, [statements |-> <<>>, stats |-> MergeStatsDefault]) }

(***************************************************************************)
(* The host applies the patch to its local replica (SQLite).  Id is the    *)
(* primary key of every table: UPDATE ... WHERE Id = ? rewrites the rows   *)
(* with that Id, INSERT OR REPLACE deletes the row holding the new row's   *)
(* Id (if there is one) and adds the new row.                              *)
(***************************************************************************)
RowOf(stmt) == [c \in {stmt.sql.columns[i] : i \in DOMAIN stmt.sql.columns} |->
                  stmt.params[CHOOSE i \in DOMAIN stmt.sql.columns : stmt.sql.columns[i] = c]]

UpdateRow(row, stmt) ==
    LET new == RowOf(stmt)
    IN [c \in (DOMAIN row) \cup (DOMAIN new) |-> IF c \in DOMAIN new THEN new[c] ELSE row[c]]

ApplyToRecords(records, stmt) ==
    IF stmt.sql.verb = "UPDATE"
    THEN [i \in DOMAIN records |->
            IF "Id" \in DOMAIN records[i] /\ records[i]["Id"] = stmt.params[Len(stmt.params)]
            THEN UpdateRow(records[i], stmt) ELSE records[i]]
    ELSE LET new == RowOf(stmt)
         IN Append(SelectSeq(records,
                     LAMBDA r : ~("Id" \in DOMAIN r /\ "Id" \in DOMAIN new /\ r["Id"] = new["Id"])),
                   new)

ApplyStatement(tables, stmt) ==
    IF \E i \in DOMAIN tables : tables[i].name = stmt.sql.table
    THEN [i \in DOMAIN tables |->
            IF tables[i].name = stmt.sql.table
            THEN [tables[i] EXCEPT !.records = ApplyToRecords(@, stmt)]
            ELSE tables[i]]
    ELSE Append(tables, [name |-> stmt.sql.table, records |-> ApplyToRecords(<<>>, stmt)])

RECURSIVE ApplyStatements(_, _, _)
ApplyStatements(tables, statements, i) ==
    IF i > Len(statements) THEN tables
    ELSE ApplyStatements(ApplyStatement(tables, statements[i]), statements, i + 1)

(***************************************************************************)
(* The inputs of the merge.                                                *)
(***************************************************************************)
MaxRecords == 2

Col(c, val) == c :> val
NoCol == EmptyMap

\* UpdatedAt values: instant 1 in the SQLite form and in RFC 3339 with an
\* offset, instant 2 in RFC 3339, and a string that is no date-time.
Stamps ==
    [ TsNaive1 |-> JStr(<<"D", " ", "1">>),
      TsZoned1 |-> JStr(<<"D", "T", "2", "+01:00">>),
      TsUtc2 |-> JStr(<<"D", "T", "2", "Z">>),
      TsJunk |-> JStr(<<"n", "/", "a">>) ]

RowIds == {JStr(<<"a">>), JStr(<<"b">>)}

\* A row without a string Id: the local replica holds a number there, the
\* server none at all.  The Name of such a row ends in "?".
NoStringId(side) == IF side = "L" THEN Col("Id", JNum(<<"7">>)) ELSE NoCol

\* Rows of a table merged by Id; Name tells the replica the data came from.
IdRows(side) ==
    { Col("Id", JStr(<<"a">>)) @@ ts @@ Col("Name", JStr(<<side>>))
      : ts \in {NoCol, Col("UpdatedAt", Stamps.TsJunk), Col("UpdatedAt", Stamps.TsNaive1),
                Col("UpdatedAt", Stamps.TsZoned1), Col("UpdatedAt", Stamps.TsUtc2)} }
    \cup { Col("Id", JStr(<<"b">>)) @@ Col("UpdatedAt", ts) @@ Col("Name", JStr(<<side>>))
           : ts \in {Stamps.TsNaive1, Stamps.TsUtc2} }
    \cup { NoStringId(side) @@ Col("UpdatedAt", Stamps.TsUtc2) @@ Col("Name", JStr(<<side, "?">>)) }

\* Rows of FieldValues: (ItemId, FieldKey) is the composite key.
KeyRows(side) ==
    { Col("Id", id) @@ Col("ItemId", JStr(<<"i">>)) @@ Col("FieldKey", fk)
        @@ Col("UpdatedAt", ts) @@ Col("Name", JStr(<<side>>))
      : id \in RowIds, fk \in {JStr(<<"k">>), JStr(<<"m">>)}, ts \in {Stamps.TsNaive1, Stamps.TsUtc2} }
    \cup { NoStringId(side) @@ Col("ItemId", JStr(<<"i">>)) @@ Col("FieldKey", JStr(<<"k">>))
             @@ Col("UpdatedAt", Stamps.TsUtc2) @@ Col("Name", JStr(<<side, "?">>)),
           Col("Id", JStr(<<"a">>)) @@ Col("ItemId", JStr(<<"i">>)) @@ Col("FieldKey", JStr(<<"k">>))
             @@ Col("Name", JStr(<<side>>)) }

\* Id is unique within a table of one replica.
UniqueIds(records) ==
    \A i, j \in DOMAIN records :
        (i # j /\ IsSome(get_record_id(records[i]))) => get_record_id(records[i]) # get_record_id(records[j])

RecordLists(rows) ==
    { l \in UNION { [1..n -> rows] : n \in 0..MaxRecords } : UniqueIds(l) }

\* The table under merge on one replica: absent, or present with some rows.
TableChoices(name, rows) ==
    { <<>> } \cup { << [name |-> name, records |-> l] >> : l \in RecordLists(rows) }

\* Rows of the replicas that hold two tables: every server row is newer
\* than the local row of its Id or key.
SideStamp(side) == IF side = "L" THEN Stamps.TsNaive1 ELSE Stamps.TsUtc2
PairIdRows(side) ==
    { Col("Id", id) @@ Col("UpdatedAt", SideStamp(side)) @@ Col("Name", JStr(<<side>>)) : id \in RowIds }
PairKeyRows(side) ==
    { Col("Id", JStr(<<"a">>)) @@ Col("ItemId", JStr(<<"i">>)) @@ Col("FieldKey", JStr(<<"k">>))
        @@ Col("UpdatedAt", SideStamp(side)) @@ Col("Name", JStr(<<side>>)),
      Col("Id", JStr(<<"b">>)) @@ Col("ItemId", JStr(<<"i">>)) @@ Col("FieldKey", JStr(<<"m">>))
        @@ Col("UpdatedAt", SideStamp(side)) @@ Col("Name", JStr(<<side>>)) }
\* Rows of FieldValues whose ItemId or FieldKey holds a colon: the local
\* row is ("i:k", "m"), the server's ("i", "k:m").
ColonKeyRows(side) ==
    { Col("Id", JStr(IF side = "L" THEN <<"a">> ELSE <<"b">>))
        @@ Col("ItemId", JStr(IF side = "L" THEN <<"i", ":", "k">> ELSE <<"i">>))
        @@ Col("FieldKey", JStr(IF side = "L" THEN <<"m">> ELSE <<"k", ":", "m">>))
        @@ Col("UpdatedAt", SideStamp(side)) @@ Col("Name", JStr(<<side>>)) }
\* Items and FieldValues of one replica, in either order of the table list.
TablePairs(side) ==
    UNION { { <<[name |-> "Items", records |-> it], [name |-> "FieldValues", records |-> fv]>>,
              <<[name |-> "FieldValues", records |-> fv], [name |-> "Items", records |-> it]>> }
            : it \in RecordLists(PairIdRows(side)), fv \in RecordLists(PairKeyRows(side)) }

MergeInputs ==
    { [local_tables |-> l, server_tables |-> s]
      : l \in TableChoices("Items", IdRows("L")), s \in TableChoices("Items", IdRows("S")) }
    \cup
    { [local_tables |-> l, server_tables |-> s]
      : l \in TableChoices("FieldValues", KeyRows("L")),
        s \in TableChoices("FieldValues", KeyRows("S")) }
    \cup
    { [local_tables |-> l, server_tables |-> s] : l \in TablePairs("L"), s \in TablePairs("S") }
    \cup
    { [local_tables |-> l, server_tables |-> s]
      : l \in TableChoices("FieldValues", ColonKeyRows("L") \cup PairKeyRows("L")),
        s \in TableChoices("FieldValues", ColonKeyRows("S") \cup PairKeyRows("S")) }

NoOutput == [success |-> FALSE, statements |-> <<>>, stats |-> MergeStatsDefault]

InitMerge ==
    /\ pc = "start"
    /\ input \in MergeInputs
    /\ output = NoOutput
    /\ applied = <<>>
    /\ replay = NoOutput

\* The host calls merge_vaults on what it read from both replicas.
MergeVaults ==
    /\ pc = "start"
    /\ \E out \in merge_vaults(input) : output' = out
    /\ pc' = "merged"
    /\ UNCHANGED <<input, applied, replay>>

\* The host executes the statements, in order, on the local replica.
ApplyPatch ==
    /\ pc = "merged"
    /\ applied' = ApplyStatements(input.local_tables, output.statements, 1)
    /\ pc' = "applied"
    /\ UNCHANGED <<input, output, replay>>

\* The same server data is merged again into the patched local replica.
MergeAgain ==
    /\ pc = "applied"
    /\ \E out \in merge_vaults([local_tables |-> applied, server_tables |-> input.server_tables]) :
          replay' = out
    /\ pc' = "replayed"
    /\ UNCHANGED <<input, output, applied>>

NextMerge == MergeVaults \/ ApplyPatch \/ MergeAgain

SpecMerge == InitMerge /\ [][NextMerge]_vars

(***************************************************************************)
(*                     Properties of the vault merge                       *)
(***************************************************************************)
HasId(record) == IsSome(get_record_id(record))
LocalRecords(cfg) == Unwrap(TableLookup(input.local_tables, cfg.name)).records
ServerRecords(cfg) == Unwrap(TableLookup(input.server_tables, cfg.name)).records
OnBothSides ==
    { SYNCABLE_TABLES[t] : t \in { u \in DOMAIN SYNCABLE_TABLES :
        /\ IsSome(TableLookup(input.local_tables, SYNCABLE_TABLES[u].name))
        /\ IsSome(TableLookup(input.server_tables, SYNCABLE_TABLES[u].name)) } }

\* The text of a column, "" when the column is missing or holds no string.
TextOf(record, col) ==
    IF col \in DOMAIN record /\ record[col].ty = "string" THEN record[col].v ELSE <<>>
\* Two records carry the same key: the same Id, or the same (ItemId, FieldKey).
SameKey(cfg, r1, r2) ==
    IF uses_composite_key(cfg)
    THEN \A c \in DOMAIN cfg.composite_key_columns :
            TextOf(r1, cfg.composite_key_columns[c]) = TextOf(r2, cfg.composite_key_columns[c])
    ELSE HasId(r1) /\ get_record_id(r1) = get_record_id(r2)

ServerNewer(l, s) ==
    /\ IsSome(get_updated_at(l)) /\ IsSome(get_updated_at(s))
    /\ Unwrap(get_updated_at(s)) > Unwrap(get_updated_at(l))
LocalNotOlder(l, s) ==
    /\ IsSome(get_updated_at(l)) /\ IsSome(get_updated_at(s))
    /\ Unwrap(get_updated_at(l)) >= Unwrap(get_updated_at(s))

\* The UPDATE statements of the first merge that are keyed by the Id of l.
UpdatesFor(cfg, l) ==
    { k \in DOMAIN output.statements :
        /\ output.statements[k].sql.verb = "UPDATE"
        /\ output.statements[k].sql.table = cfg.name
        /\ output.statements[k].params[Len(output.statements[k].params)] = JStr(Unwrap(get_record_id(l))) }
\* stmt sets exactly the columns of s other than Id, to the values s holds.
SetsColumnsOf(stmt, s) ==
    /\ Len(stmt.sql.columns) = Cardinality((DOMAIN s) \ {"Id"})
    /\ Len(stmt.params) = Len(stmt.sql.columns) + 1
    /\ \A c \in (DOMAIN s) \ {"Id"} :
          \E i \in DOMAIN stmt.sql.columns : stmt.sql.columns[i] = c /\ stmt.params[i] = s[c]
\* stmt inserts the record s.
InsertsRecord(stmt, cfg, s) ==
    /\ stmt.sql.verb = "INSERT OR REPLACE INTO" /\ stmt.sql.table = cfg.name
    /\ Len(stmt.sql.columns) = Cardinality(DOMAIN s)
    /\ \A c \in DOMAIN s : \E i \in DOMAIN stmt.sql.columns : stmt.sql.columns[i] = c /\ stmt.params[i] = s[c]

\* Local record i is the first local record with an Id that carries its key,
\* and server record j is the one the merge keeps for that key: the last one
\* with the Id, or the first of the newest ones with the composite key.
FirstWithKey(cfg, i) ==
    /\ HasId(LocalRecords(cfg)[i])
    /\ \A h \in 1..(i - 1) :
          ~(HasId(LocalRecords(cfg)[h]) /\ SameKey(cfg, LocalRecords(cfg)[h], LocalRecords(cfg)[i]))
KeptForKey(cfg, j) ==
    LET S == ServerRecords(cfg)
    IN IF uses_composite_key(cfg)
       THEN \A h \in DOMAIN S :
               (h # j /\ SameKey(cfg, S[h], S[j])) =>
                  IF h < j THEN OptionGt(get_updated_at(S[j]), get_updated_at(S[h]))
                           ELSE ~OptionGt(get_updated_at(S[h]), get_updated_at(S[j]))
       ELSE HasId(S[j]) /\ \A h \in DOMAIN S : h > j => get_record_id(S[h]) # get_record_id(S[j])
Paired(cfg, i, j) ==
    /\ FirstWithKey(cfg, i) /\ KeptForKey(cfg, j)
    /\ SameKey(cfg, LocalRecords(cfg)[i], ServerRecords(cfg)[j])

\* How many local records, over all tables on both sides, satisfy P(cfg, i).
RECURSIVE CountLocal(_, _)
CountLocal(P(_, _), t) ==
    IF t > Len(SYNCABLE_TABLES) THEN 0
    ELSE (IF SYNCABLE_TABLES[t] \in OnBothSides
          THEN Cardinality({ i \in DOMAIN LocalRecords(SYNCABLE_TABLES[t]) : P(SYNCABLE_TABLES[t], i) })
          ELSE 0) + CountLocal(P, t + 1)

\* C1 (as claimed): merging the same server data into the patched local
\* replica emits no statement.
C1_ReplayEmitsNothing == pc = "replayed" => replay.statements = <<>>

\* C2 (as claimed): every local record with an Id that has a server record of
\* the same key with a strictly greater UpdatedAt gets exactly one UPDATE, which
\* sets the server record's columns other than Id and is keyed by the local Id;
\* conflicts and records_from_server count these local records.
HasNewerServerRecord(cfg, i) ==
    /\ HasId(LocalRecords(cfg)[i])
    /\ \E j \in DOMAIN ServerRecords(cfg) :
          SameKey(cfg, LocalRecords(cfg)[i], ServerRecords(cfg)[j])
          /\ ServerNewer(LocalRecords(cfg)[i], ServerRecords(cfg)[j])
HasColon(record, col) == \E p \in DOMAIN TextOf(record, col) : TextOf(record, col)[p] = ":"
ColonFreeKeys ==
    \A cfg \in OnBothSides :
        uses_composite_key(cfg) =>
           \A side \in {LocalRecords(cfg), ServerRecords(cfg)} : \A r \in DOMAIN side :
              \A c \in DOMAIN cfg.composite_key_columns :
                 ~HasColon(side[r], cfg.composite_key_columns[c])

\* C2 (amended): the same, for the pairs the merge forms: the first local
\* record of a key with the server record kept for that key, when no composite
\* key value holds a colon.
PairedWithNewer(cfg, i) ==
    \E j \in DOMAIN ServerRecords(cfg) :
        Paired(cfg, i, j) /\ ServerNewer(LocalRecords(cfg)[i], ServerRecords(cfg)[j])
HasNotNewerServerRecord(cfg, i) ==
    /\ HasId(LocalRecords(cfg)[i])
    /\ \E j \in DOMAIN ServerRecords(cfg) :
          SameKey(cfg, LocalRecords(cfg)[i], ServerRecords(cfg)[j])
          /\ LocalNotOlder(LocalRecords(cfg)[i], ServerRecords(cfg)[j])
PairedNotNewer(cfg, i) ==
    \E j \in DOMAIN ServerRecords(cfg) :
        Paired(cfg, i, j) /\ LocalNotOlder(LocalRecords(cfg)[i], ServerRecords(cfg)[j])
C4_MissingTimestampIsOldest ==
    pc = "merged" =>
       \A cfg \in OnBothSides : \A i \in DOMAIN LocalRecords(cfg) : \A j \in DOMAIN ServerRecords(cfg) :
          Paired(cfg, i, j) =>
             /\ (~IsSome(get_updated_at(LocalRecords(cfg)[i])) /\ IsSome(get_updated_at(ServerRecords(cfg)[j])))
                   => UpdatesFor(cfg, LocalRecords(cfg)[i]) # {}
             /\ ~IsSome(get_updated_at(ServerRecords(cfg)[j]))
                   => UpdatesFor(cfg, LocalRecords(cfg)[i]) = {}

\* C5 (as claimed): no statement comes from a record without a string Id:
\* an INSERT carries a string Id, and an UPDATE copies a server record that
\* has a string Id.
C5_NoStatementFromRecordWithoutId ==
    pc = "merged" =>
       \A k \in DOMAIN output.statements :
          LET stmt == output.statements[k]
              from == Unwrap(TableLookup(input.server_tables, stmt.sql.table)).records
          IN IF stmt.sql.verb = "UPDATE"
             THEN \E j \in DOMAIN from : HasId(from[j]) /\ SetsColumnsOf(stmt, from[j])
             ELSE \E i \in DOMAIN stmt.sql.columns :
                     stmt.sql.columns[i] = "Id" /\ stmt.params[i].ty = "string"

(***************************************************************************)
(*                                SRP-6a                                   *)
(* Text is a sequence of characters, bytes are a sequence of 0..255.  The  *)
(* group is a safe prime with generator 2 whose values need two bytes, and *)
(* the hash folds its input into one byte.                                 *)
(***************************************************************************)
Ok(val) == [tag |-> "Ok", val |-> val]
Err(e) == [tag |-> "Err", err |-> e]
Panic == [tag |-> "Panic"]
Pending == [tag |-> "Pending"]
IsOk(r) == r.tag = "Ok"

HexDigits == <<"0", "1", "2", "3", "4", "5", "6", "7", "8", "9", "A", "B", "C", "D", "E", "F">>
LowerHex == <<"0", "1", "2", "3", "4", "5", "6", "7", "8", "9", "a", "b", "c", "d", "e", "f">>
\* char::to_digit(16): the value of a hex digit of either case, -1 otherwise.
to_digit(c) ==
    IF \E i \in DOMAIN HexDigits : HexDigits[i] = c
    THEN (CHOOSE i \in DOMAIN HexDigits : HexDigits[i] = c) - 1
    ELSE IF \E i \in DOMAIN LowerHex : LowerHex[i] = c
         THEN (CHOOSE i \in DOMAIN LowerHex : LowerHex[i] = c) - 1
         ELSE -1

\* The UTF-8 bytes of a character of the texts used here.
Utf8Of(c) ==
    IF to_digit(c) >= 0 /\ to_digit(c) <= 9 THEN <<48 + to_digit(c)>>
    ELSE IF \E i \in DOMAIN HexDigits : HexDigits[i] = c THEN <<55 + to_digit(c)>>
    ELSE IF to_digit(c) >= 10 THEN <<87 + to_digit(c)>>
    ELSE CASE c = " " -> <<32>>
           [] c = "+" -> <<43>>
           [] c = "-" -> <<45>>
           [] c = ":" -> <<58>>
           [] c = "X" -> <<88>>
           [] c = "u" -> <<117>>
           [] c = "x" -> <<120>>
           [] c = "z" -> <<122>>
           [] c = "é" -> <<195, 169>>
RECURSIVE as_bytes(_)
as_bytes(s) == IF s = <<>> THEN <<>> ELSE Utf8Of(Head(s)) \o as_bytes(Tail(s))

\* format!("{:02X}", b) over the bytes.
RECURSIVE bytes_to_hex(_)
bytes_to_hex(bytes) ==
    IF bytes = <<>> THEN <<>>
    ELSE <<HexDigits[(Head(bytes) \div 16) + 1], HexDigits[(Head(bytes) % 16) + 1]>>
         \o bytes_to_hex(Tail(bytes))

\* str::trim
RECURSIVE trim_start(_)
trim_start(s) == IF s # <<>> /\ Head(s) = " " THEN trim_start(Tail(s)) ELSE s
RECURSIVE trim_end(_)
trim_end(s) == IF s # <<>> /\ s[Len(s)] = " " THEN trim_end(SubSeq(s, 1, Len(s) - 1)) ELSE s
trim(s) == trim_end(trim_start(s))
\* s.strip_prefix(p).unwrap_or(s)
strip_prefix(s, p) ==
    IF Len(s) >= Len(p) /\ SubSeq(s, 1, Len(p)) = p THEN SubSeq(s, Len(p) + 1, Len(s)) ELSE s

\* u8::from_str_radix(src, 16) for the one or two characters of a two-byte
\* slice: a leading + is a sign, a - is not a digit of an unsigned number.
from_str_radix(src) ==
    LET digits == IF Head(src) = "+" THEN Tail(src) ELSE src
    IN IF Head(src) \in {"+", "-"} /\ Tail(src) = <<>> THEN Err("InvalidHex")
       ELSE IF \E i \in DOMAIN digits : to_digit(digits[i]) < 0 THEN Err("InvalidHex")
       ELSE Ok(IF Len(digits) = 2 THEN 16 * to_digit(digits[1]) + to_digit(digits[2])
               ELSE to_digit(digits[1]))

\* The slices &hex[i..i + 2] from the left: s is what is left of the text and
\* acc the bytes decoded so far.  A slice that ends inside a character panics.
RECURSIVE DecodePairs(_, _)
DecodePairs(s, acc) ==
    IF s = <<>> THEN Ok(acc)
    ELSE IF Len(Utf8Of(Head(s))) = 2
         THEN Err("InvalidHex")
         ELSE IF Len(Utf8Of(s[2])) = 2 THEN Panic
              ELSE LET byte == from_str_radix(SubSeq(s, 1, 2))
                   IN IF IsOk(byte) THEN DecodePairs(SubSeq(s, 3, Len(s)), Append(acc, byte.val))
                      ELSE byte
hex_to_bytes(hex) ==
    LET trimmed == trim(hex)
        digits == strip_prefix(strip_prefix(trimmed, <<"0", "x">>), <<"0", "X">>)
    IN IF trimmed = <<>> THEN Err("InvalidHex")
       ELSE IF Len(as_bytes(digits)) % 2 # 0 THEN Err("InvalidHex")
       ELSE DecodePairs(digits, <<>>)

pad_to_length(bytes, target_len) ==
    IF Len(bytes) >= target_len THEN bytes
    ELSE [i \in 1..(target_len - Len(bytes)) |-> 0] \o bytes

\* BigUint::from_bytes_be, BigUint::to_bytes_be (zero is the byte 0), modpow.
RECURSIVE from_bytes_be(_)
from_bytes_be(bytes) ==
    IF bytes = <<>> THEN 0
    ELSE 256 * from_bytes_be(SubSeq(bytes, 1, Len(bytes) - 1)) + bytes[Len(bytes)]
RECURSIVE to_bytes_be(_)
to_bytes_be(n) == IF n < 256 THEN <<n>> ELSE Append(to_bytes_be(n \div 256), n % 256)
RECURSIVE modpow(_, _, _)
modpow(base, exp, modulus) ==
    IF exp = 0 THEN 1 % modulus
    ELSE LET half == modpow(base, exp \div 2, modulus)
             sq == (half * half) % modulus
         IN IF exp % 2 = 1 THEN (sq * (base % modulus)) % modulus ELSE sq

\* The group: a safe prime N = 2q + 1 with N = 3 (mod 8), so that g = 2
\* generates the whole multiplicative group, as in the 2048-bit group.
G_2048 == [n |-> 347, g |-> 2]
\* The byte length of N, to which public values are padded.
NLen == Len(to_bytes_be(G_2048.n))

\* The hash: a one-byte fold of the input.
RECURSIVE Fold(_, _)
Fold(bytes, h) == IF bytes = <<>> THEN h ELSE Fold(Tail(bytes), (h * 33 + Head(bytes) + 1) % 251)
Sha256(bytes) == <<Fold(bytes, 7)>>

\* The first result that is not Ok, as a chain of ? returns it.
FirstFailure(results) ==
    results[CHOOSE i \in DOMAIN results :
                ~IsOk(results[i]) /\ \A j \in 1..(i - 1) : IsOk(results[j])]
AllOk(results) == \A i \in DOMAIN results : IsOk(results[i])

RECURSIVE BitXor(_, _)
BitXor(a, b) ==
    IF a = 0 /\ b = 0 THEN 0
    ELSE 2 * BitXor(a \div 2, b \div 2) + (IF a % 2 = b % 2 THEN 0 ELSE 1)
\* subtle::ConstantTimeEq on byte slices: equal length and equal bytes.
ct_eq(a, b) == a = b

compute_u(a_pub, b_pub) == from_bytes_be(Sha256(a_pub \o b_pub))
compute_k ==
    from_bytes_be(Sha256(to_bytes_be(G_2048.n) \o pad_to_length(to_bytes_be(G_2048.g), NLen)))
compute_m1(a_pub, b_pub, salt, identity, key) ==
    LET h_n == Sha256(to_bytes_be(G_2048.n))
        h_g == Sha256(to_bytes_be(G_2048.g))
        h_n_xor_h_g == [i \in DOMAIN h_n |-> BitXor(h_n[i], h_g[i])]
        h_i == Sha256(as_bytes(identity))
    IN Sha256(h_n_xor_h_g \o h_i \o salt \o a_pub \o b_pub \o key)
compute_m2(a_pub, m1, key) == Sha256(a_pub \o m1 \o key)

srp_derive_private_key(salt, identity, password_hash) ==
    LET salt_bytes == hex_to_bytes(salt)
        identity_hash == Sha256(as_bytes(identity) \o as_bytes(<<":">>) \o as_bytes(password_hash))
    IN IF ~IsOk(salt_bytes) THEN salt_bytes
       ELSE Ok(bytes_to_hex(Sha256(salt_bytes.val \o identity_hash)))

srp_derive_verifier(private_key) ==
    LET x_bytes == hex_to_bytes(private_key)
    IN IF ~IsOk(x_bytes) THEN x_bytes
       ELSE LET v == modpow(G_2048.g, from_bytes_be(x_bytes.val), G_2048.n)
            IN Ok(bytes_to_hex(pad_to_length(to_bytes_be(v), NLen)))

\* a is the secret the random generator returned.
srp_generate_ephemeral(a) ==
    LET a_pub == to_bytes_be(modpow(G_2048.g, from_bytes_be(a), G_2048.n))
    IN [public |-> bytes_to_hex(pad_to_length(a_pub, NLen)), secret |-> bytes_to_hex(a)]

\* b is the secret the random generator returned.
srp_generate_ephemeral_server(verifier, b) ==
    LET v_bytes == hex_to_bytes(verifier)
    IN IF ~IsOk(v_bytes) THEN v_bytes
       ELSE LET b_pub == to_bytes_be((compute_k * from_bytes_be(v_bytes.val)
                                      + modpow(G_2048.g, from_bytes_be(b), G_2048.n)) % G_2048.n)
            IN Ok([public |-> bytes_to_hex(pad_to_length(b_pub, NLen)), secret |-> bytes_to_hex(b)])

srp_derive_session(client_secret, server_public, salt, identity, private_key) ==
    LET decoded == <<hex_to_bytes(client_secret), hex_to_bytes(server_public),
                     hex_to_bytes(salt), hex_to_bytes(private_key)>>
    IN IF ~AllOk(decoded) THEN FirstFailure(decoded)
       ELSE LET a_big == from_bytes_be(decoded[1].val)
                b_pub == decoded[2].val
                a_pub == modpow(G_2048.g, a_big, G_2048.n)
                b_pub_big == from_bytes_be(b_pub)
            IN IF b_pub_big % G_2048.n = 0 THEN Err("InvalidParameter")
               ELSE LET a_pub_bytes == pad_to_length(to_bytes_be(a_pub), NLen)
                        b_pub_bytes == pad_to_length(b_pub, NLen)
                        u == compute_u(a_pub_bytes, b_pub_bytes)
                        x == from_bytes_be(decoded[4].val)
                        kg_x == (compute_k * modpow(G_2048.g, x, G_2048.n)) % G_2048.n
                        base == ((G_2048.n + b_pub_big) - kg_x) % G_2048.n
                        key == Sha256(pad_to_length(to_bytes_be(modpow(base, u * x + a_big, G_2048.n)), NLen))
                        m1 == compute_m1(a_pub_bytes, b_pub_bytes, decoded[3].val, identity, key)
                    IN Ok([proof |-> bytes_to_hex(m1), key |-> bytes_to_hex(key)])

\* What the server recomputes from the decoded b, A, salt and v: the padded
\* A, the session key and the proof it expects.
ServerSide(b, a_pub, salt_bytes, identity, v_bytes) ==
    LET b_big == from_bytes_be(b)
        a_pub_big == from_bytes_be(a_pub)
        v == from_bytes_be(v_bytes)
        kv == (compute_k * v) % G_2048.n
        b_pub == (kv + modpow(G_2048.g, b_big, G_2048.n)) % G_2048.n
        a_pub_bytes == pad_to_length(a_pub, NLen)
        b_pub_bytes == pad_to_length(to_bytes_be(b_pub), NLen)
        u == compute_u(a_pub_bytes, b_pub_bytes)
        base == (a_pub_big * modpow(v, u, G_2048.n)) % G_2048.n
        key == Sha256(pad_to_length(to_bytes_be(modpow(base, b_big, G_2048.n)), NLen))
    IN [a_pub_bytes |-> a_pub_bytes, key |-> key,
        expected_m1 |-> compute_m1(a_pub_bytes, b_pub_bytes, salt_bytes, identity, key)]

srp_derive_session_server(server_secret, client_public, salt, identity, verifier, client_proof) ==
    LET decoded == <<hex_to_bytes(server_secret), hex_to_bytes(client_public), hex_to_bytes(salt),
                     hex_to_bytes(verifier), hex_to_bytes(client_proof)>>
    IN IF ~AllOk(decoded) THEN FirstFailure(decoded)
       ELSE IF from_bytes_be(decoded[2].val) % G_2048.n = 0 THEN Err("InvalidParameter")
       ELSE LET side == ServerSide(decoded[1].val, decoded[2].val, decoded[3].val, identity, decoded[4].val)
            IN IF ~ct_eq(side.expected_m1, decoded[5].val) THEN Ok(None)
               ELSE Ok(Some([proof |-> bytes_to_hex(compute_m2(side.a_pub_bytes, side.expected_m1, side.key)),
                             key |-> bytes_to_hex(side.key)]))

\* srp_verify_session comparing the server's proof with the client's own M1.
srp_verify_session_against_m1(client_public, client_proof, session_key, server_proof) ==
    LET decoded == <<hex_to_bytes(client_public), hex_to_bytes(client_proof),
                     hex_to_bytes(session_key), hex_to_bytes(server_proof)>>
    IN IF ~AllOk(decoded) THEN FirstFailure(decoded)
       ELSE Ok(ct_eq(decoded[2].val, decoded[4].val))

srp_verify_session(client_public, client_proof, session_key, server_proof) ==
    LET decoded == <<hex_to_bytes(client_public), hex_to_bytes(client_proof),
                     hex_to_bytes(session_key), hex_to_bytes(server_proof)>>
    IN IF ~AllOk(decoded) THEN FirstFailure(decoded)
       ELSE Ok(ct_eq(compute_m2(decoded[1].val, decoded[2].val, decoded[3].val), decoded[4].val))

\* ---- The login flow --------------------------------------------------
MaxClientSecret == 8
MaxServerSecret == 20
\* The length of an ephemeral secret, in bytes.
SecretLen == 1
\* generate_random_bytes(len), over the secrets up to max.
generate_random_bytes(len, max) == { pad_to_length(to_bytes_be(n), len) : n \in 0..max }

Salts == { <<"0", "A">>, <<"0", "A", "0", "B">> }
Identities == { <<"u">> }
PasswordHashes == { <<"A", "B">>, <<"C", "D">> }
\* Texts a caller may pass where hex is expected.
Probes ==
    { <<>>, <<"A">>, <<"+", "A">>, <<"z", "z">>, <<"é">>, <<"a", "é", "1">>,
      <<"0", "0", "0", "0">>, bytes_to_hex(to_bytes_be(G_2048.n)),
      <<" ", "0", "x", "0", "a", " ">> }
HexFields == {"server_secret", "client_public", "salt", "verifier", "client_proof"}

\* What the server is handed: the flow's own values ("none"), A without its
\* leading zero bytes ("minimal"), or one field replaced by a probe.
SrpInputs ==
    { [salt |-> s, identity |-> i, password_hash |-> p, a |-> a, b |-> b,
       tamper |-> [field |-> f, probe |-> <<>>]] :
         s \in Salts, i \in Identities, p \in PasswordHashes,
         a \in generate_random_bytes(SecretLen, MaxClientSecret),
         b \in generate_random_bytes(SecretLen, MaxServerSecret),
         f \in {"none", "minimal"} }
    \cup
    { [salt |-> s, identity |-> i, password_hash |-> p, a |-> a, b |-> b,
       tamper |-> [field |-> f, probe |-> t]] :
         s \in Salts, i \in Identities, p \in PasswordHashes,
         a \in generate_random_bytes(SecretLen, 1),
         b \in generate_random_bytes(SecretLen, 1),
         f \in HexFields, t \in Probes }

SrpPending ==
    [x |-> Pending, v |-> Pending, A |-> Pending, B |-> Pending, session |-> Pending,
     sent |-> Pending, server |-> Pending, verified |-> Pending]

InitSrp ==
    /\ pc = "start"
    /\ input \in SrpInputs
    /\ output = SrpPending
    /\ applied = <<>>
    /\ replay = NoOutput

DerivePrivateKey ==
    /\ pc = "start" /\ output = SrpPending
    /\ output' = [output EXCEPT !.x = srp_derive_private_key(input.salt, input.identity, input.password_hash)]
    /\ pc' = "x"
    /\ UNCHANGED <<input, applied, replay>>

DeriveVerifier ==
    /\ pc = "x" /\ IsOk(output.x)
    /\ output' = [output EXCEPT !.v = srp_derive_verifier(output.x.val)]
    /\ pc' = "v"
    /\ UNCHANGED <<input, applied, replay>>

GenerateEphemeral ==
    /\ pc = "v" /\ IsOk(output.v)
    /\ output' = [output EXCEPT !.A = Ok(srp_generate_ephemeral(input.a))]
    /\ pc' = "A"
    /\ UNCHANGED <<input, applied, replay>>

GenerateEphemeralServer ==
    /\ pc = "A"
    /\ output' = [output EXCEPT !.B = srp_generate_ephemeral_server(output.v.val, input.b)]
    /\ pc' = "B"
    /\ UNCHANGED <<input, applied, replay>>

DeriveSession ==
    /\ pc = "B" /\ IsOk(output.B)
    /\ output' = [output EXCEPT !.session =
                     srp_derive_session(output.A.val.secret, output.B.val.public,
                                        input.salt, input.identity, output.x.val)]
    /\ pc' = "M1"
    /\ UNCHANGED <<input, applied, replay>>

\* The six texts the server is called with.
SentToServer ==
    LET own == [server_secret |-> output.B.val.secret, client_public |-> output.A.val.public,
                salt |-> input.salt, verifier |-> output.v.val,
                client_proof |-> output.session.val.proof, identity |-> input.identity]
    IN IF input.tamper.field = "none" THEN own
       ELSE IF input.tamper.field = "minimal"
            THEN [own EXCEPT !.client_public =
                     bytes_to_hex(to_bytes_be(from_bytes_be(hex_to_bytes(own.client_public).val)))]
            ELSE [own EXCEPT ![input.tamper.field] = input.tamper.probe]

DeriveSessionServer ==
    /\ pc = "M1" /\ IsOk(output.session)
    /\ LET sent == SentToServer
       IN output' = [output EXCEPT
                        !.sent = sent,
                        !.server = srp_derive_session_server(sent.server_secret, sent.client_public, sent.salt,
                                                             sent.identity, sent.verifier, sent.client_proof)]
    /\ pc' = "M2"
    /\ UNCHANGED <<input, applied, replay>>

VerifySession ==
    /\ pc = "M2" /\ IsOk(output.server) /\ IsSome(output.server.val)
    /\ output' = [output EXCEPT !.verified =
                     srp_verify_session(output.sent.client_public, output.session.val.proof,
                                        output.session.val.key, Unwrap(output.server.val).proof)]
    /\ pc' = "verified"
    /\ UNCHANGED <<input, applied, replay>>

NextSrp ==
    \/ DerivePrivateKey \/ DeriveVerifier \/ GenerateEphemeral \/ GenerateEphemeralServer
    \/ DeriveSession \/ DeriveSessionServer \/ VerifySession
SpecSrp == InitSrp /\ [][NextSrp]_vars

(***************************************************************************)
(*                          Properties of SRP                              *)
(***************************************************************************)
\* The number a hex text of the flow stands for.
NumberOf(hex) == from_bytes_be(hex_to_bytes(hex).val)
ServerBIsZero == NumberOf(output.B.val.public) % G_2048.n = 0
ServerAnswered == IsOk(output.server) /\ IsSome(output.server.val)

\* C6 (as claimed): in a flow whose server is handed the flow's own values,
\* with A = g^a mod N in either hex form, the client derives a session, the
\* server answers Some(M2, K') with K' = K, and verify_session is true.
C6_RoundTrip ==
    input.tamper.field \in {"none", "minimal"} =>
       /\ pc = "M1" => IsOk(output.session)
       /\ pc = "M2" => ServerAnswered /\ Unwrap(output.server.val).key = output.session.val.key
       /\ pc = "verified" => output.verified = Ok(TRUE)

\* C6 (amended): the same when B mod N # 0 and A is handed over as
\* generate_ephemeral returns it, padded to the length of N.
C6_RoundTripNonZeroB ==
    (input.tamper.field = "none" /\ pc \in {"M1", "M2", "verified"} /\ ~ServerBIsZero) =>
       /\ IsOk(output.session)
       /\ pc = "M2" => ServerAnswered /\ Unwrap(output.server.val).key = output.session.val.key
       /\ pc = "verified" => output.verified = Ok(TRUE)

\* C6 witness: a verified flow whose A carries a leading zero byte.
C6_Witness ==
    /\ pc = "verified" /\ input.tamper.field = "none"
    /\ output.verified = Ok(TRUE)
    /\ Unwrap(output.server.val).key = output.session.val.key
    /\ NumberOf(output.A.val.public) < 256
    /\ Len(hex_to_bytes(output.A.val.public).val) = NLen

\* C8 (as claimed): the server call returns Ok(None) exactly when its five
\* hex inputs are well formed, A mod N # 0 and the supplied M1 differs from
\* the recomputed one; it returns InvalidHex only for malformed hex and
\* InvalidParameter only for A mod N = 0.
IsHexText(s) ==
    /\ s # <<>> /\ Len(s) % 2 = 0
    /\ \A i \in DOMAIN s : \E d \in DOMAIN HexDigits : s[i] \in {HexDigits[d], LowerHex[d]}
WellFormedHex(s) ==
    IsHexText(strip_prefix(strip_prefix(trim(s), <<"0", "x">>), <<"0", "X">>))
C8_OutcomeClassification ==
    pc = "M2" =>
       LET sent == output.sent
           wf == \A f \in HexFields : WellFormedHex(sent[f])
           zeroA == wf /\ NumberOf(sent.client_public) % G_2048.n = 0
           differs == wf /\ ~zeroA /\
                      hex_to_bytes(sent.client_proof).val #
                         ServerSide(hex_to_bytes(sent.server_secret).val, hex_to_bytes(sent.client_public).val,
                                    hex_to_bytes(sent.salt).val, sent.identity,
                                    hex_to_bytes(sent.verifier).val).expected_m1
       IN /\ (output.server = Ok(None)) <=> (wf /\ ~zeroA /\ differs)
          /\ output.server.tag = "Err" =>
                \/ output.server.err = "InvalidHex" /\ ~wf
                \/ output.server.err = "InvalidParameter" /\ zeroA

(***************************************************************************)
(*                          Credential matcher                             *)
(***************************************************************************)
COMMON_TLDS ==
    {
      <<"c", "o", "m">>, <<"n", "e", "t">>, <<"o", "r", "g">>, <<"e", "d", "u">>, <<"g", "o", "v">>, <<"m", "i", "l">>, <<"i", "n", "t">>, <<"n", "l">>,
      <<"d", "e">>, <<"u", "k">>, <<"f", "r">>, <<"i", "t">>, <<"e", "s">>, <<"p", "l">>, <<"b", "e">>, <<"c", "h">>,
      <<"a", "t">>, <<"s", "e">>, <<"n", "o">>, <<"d", "k">>, <<"f", "i">>, <<"p", "t">>, <<"g", "r">>, <<"c", "z">>,
      <<"h", "u">>, <<"r", "o">>, <<"b", "g">>, <<"h", "r">>, <<"s", "k">>, <<"s", "i">>, <<"l", "t">>, <<"l", "v">>,
      <<"e", "e">>, <<"i", "e">>, <<"l", "u">>, <<"u", "s">>, <<"c", "a">>, <<"m", "x">>, <<"b", "r">>, <<"a", "r">>,
      <<"c", "l">>, <<"c", "o">>, <<"v", "e">>, <<"p", "e">>, <<"e", "c">>, <<"a", "u">>, <<"n", "z">>, <<"j", "p">>,
      <<"c", "n">>, <<"i", "n">>, <<"k", "r">>, <<"t", "w">>, <<"h", "k">>, <<"s", "g">>, <<"m", "y">>, <<"t", "h">>,
      <<"i", "d">>, <<"p", "h">>, <<"v", "n">>, <<"z", "a">>, <<"e", "g">>, <<"n", "g">>, <<"k", "e">>, <<"u", "g">>,
      <<"t", "z">>, <<"m", "a">>, <<"r", "u">>, <<"u", "a">>, <<"b", "y">>, <<"k", "z">>, <<"i", "l">>, <<"t", "r">>,
      <<"s", "a">>, <<"a", "e">>, <<"q", "a">>, <<"k", "w">>, <<"a", "p", "p">>, <<"d", "e", "v">>, <<"i", "o">>, <<"a", "i">>,
      <<"t", "e", "c", "h">>, <<"s", "h", "o", "p">>, <<"s", "t", "o", "r", "e">>, <<"o", "n", "l", "i", "n", "e">>, <<"s", "i", "t", "e">>, <<"w", "e", "b", "s", "i", "t", "e">>, <<"b", "l", "o", "g">>, <<"n", "e", "w", "s">>,
      <<"m", "e", "d", "i", "a">>, <<"t", "v">>, <<"v", "i", "d", "e", "o">>, <<"m", "u", "s", "i", "c">>, <<"p", "r", "o">>, <<"i", "n", "f", "o">>, <<"b", "i", "z">>, <<"n", "a", "m", "e">> }

TWO_LEVEL_TLDS ==
    {
      <<"c", "o", "m", ".", "a", "u">>, <<"n", "e", "t", ".", "a", "u">>, <<"o", "r", "g", ".", "a", "u">>, <<"e", "d", "u", ".", "a", "u">>, <<"g", "o", "v", ".", "a", "u">>,
      <<"a", "s", "n", ".", "a", "u">>, <<"i", "d", ".", "a", "u">>, <<"c", "o", ".", "u", "k">>, <<"o", "r", "g", ".", "u", "k">>, <<"n", "e", "t", ".", "u", "k">>,
      <<"a", "c", ".", "u", "k">>, <<"g", "o", "v", ".", "u", "k">>, <<"p", "l", "c", ".", "u", "k">>, <<"l", "t", "d", ".", "u", "k">>, <<"m", "e", ".", "u", "k">>,
      <<"c", "o", ".", "c", "a">>, <<"n", "e", "t", ".", "c", "a">>, <<"o", "r", "g", ".", "c", "a">>, <<"g", "c", ".", "c", "a">>, <<"a", "b", ".", "c", "a">>,
      <<"b", "c", ".", "c", "a">>, <<"m", "b", ".", "c", "a">>, <<"n", "b", ".", "c", "a">>, <<"n", "f", ".", "c", "a">>, <<"n", "l", ".", "c", "a">>,
      <<"n", "s", ".", "c", "a">>, <<"n", "t", ".", "c", "a">>, <<"n", "u", ".", "c", "a">>, <<"o", "n", ".", "c", "a">>, <<"p", "e", ".", "c", "a">>,
      <<"q", "c", ".", "c", "a">>, <<"s", "k", ".", "c", "a">>, <<"y", "k", ".", "c", "a">>, <<"c", "o", ".", "i", "n">>, <<"n", "e", "t", ".", "i", "n">>,
      <<"o", "r", "g", ".", "i", "n">>, <<"e", "d", "u", ".", "i", "n">>, <<"g", "o", "v", ".", "i", "n">>, <<"a", "c", ".", "i", "n">>, <<"r", "e", "s", ".", "i", "n">>,
      <<"g", "e", "n", ".", "i", "n">>, <<"f", "i", "r", "m", ".", "i", "n">>, <<"i", "n", "d", ".", "i", "n">>, <<"c", "o", ".", "j", "p">>, <<"n", "e", ".", "j", "p">>,
      <<"o", "r", ".", "j", "p">>, <<"a", "c", ".", "j", "p">>, <<"a", "d", ".", "j", "p">>, <<"e", "d", ".", "j", "p">>, <<"g", "o", ".", "j", "p">>,
      <<"g", "r", ".", "j", "p">>, <<"l", "g", ".", "j", "p">>, <<"c", "o", ".", "z", "a">>, <<"n", "e", "t", ".", "z", "a">>, <<"o", "r", "g", ".", "z", "a">>,
      <<"e", "d", "u", ".", "z", "a">>, <<"g", "o", "v", ".", "z", "a">>, <<"a", "c", ".", "z", "a">>, <<"w", "e", "b", ".", "z", "a">>, <<"c", "o", ".", "n", "z">>,
      <<"n", "e", "t", ".", "n", "z">>, <<"o", "r", "g", ".", "n", "z">>, <<"e", "d", "u", ".", "n", "z">>, <<"g", "o", "v", "t", ".", "n", "z">>, <<"a", "c", ".", "n", "z">>,
      <<"g", "e", "e", "k", ".", "n", "z">>, <<"g", "e", "n", ".", "n", "z">>, <<"k", "i", "w", "i", ".", "n", "z">>, <<"m", "a", "o", "r", "i", ".", "n", "z">>, <<"m", "i", "l", ".", "n", "z">>,
      <<"s", "c", "h", "o", "o", "l", ".", "n", "z">>, <<"c", "o", "m", ".", "b", "r">>, <<"n", "e", "t", ".", "b", "r">>, <<"o", "r", "g", ".", "b", "r">>, <<"e", "d", "u", ".", "b", "r">>,
      <<"g", "o", "v", ".", "b", "r">>, <<"m", "i", "l", ".", "b", "r">>, <<"a", "r", "t", ".", "b", "r">>, <<"e", "t", "c", ".", "b", "r">>, <<"a", "d", "v", ".", "b", "r">>,
      <<"a", "r", "q", ".", "b", "r">>, <<"b", "i", "o", ".", "b", "r">>, <<"c", "i", "m", ".", "b", "r">>, <<"c", "n", "g", ".", "b", "r">>, <<"c", "n", "t", ".", "b", "r">>,
      <<"e", "c", "n", ".", "b", "r">>, <<"e", "n", "g", ".", "b", "r">>, <<"e", "s", "p", ".", "b", "r">>, <<"e", "t", "i", ".", "b", "r">>, <<"f", "a", "r", ".", "b", "r">>,
      <<"f", "n", "d", ".", "b", "r">>, <<"f", "o", "t", ".", "b", "r">>, <<"f", "s", "t", ".", "b", "r">>, <<"g", "1", "2", ".", "b", "r">>, <<"g", "e", "o", ".", "b", "r">>,
      <<"g", "g", "f", ".", "b", "r">>, <<"j", "o", "r", ".", "b", "r">>, <<"l", "e", "l", ".", "b", "r">>, <<"m", "a", "t", ".", "b", "r">>, <<"m", "e", "d", ".", "b", "r">>,
      <<"m", "u", "s", ".", "b", "r">>, <<"n", "o", "t", ".", "b", "r">>, <<"n", "t", "r", ".", "b", "r">>, <<"o", "d", "o", ".", "b", "r">>, <<"p", "p", "g", ".", "b", "r">>,
      <<"p", "r", "o", ".", "b", "r">>, <<"p", "s", "c", ".", "b", "r">>, <<"p", "s", "i", ".", "b", "r">>, <<"q", "s", "l", ".", "b", "r">>, <<"r", "e", "c", ".", "b", "r">>,
      <<"s", "l", "g", ".", "b", "r">>, <<"s", "r", "v", ".", "b", "r">>, <<"t", "m", "p", ".", "b", "r">>, <<"t", "r", "d", ".", "b", "r">>, <<"t", "u", "r", ".", "b", "r">>,
      <<"t", "v", ".", "b", "r">>, <<"v", "e", "t", ".", "b", "r">>, <<"z", "l", "g", ".", "b", "r">>, <<"c", "o", "m", ".", "r", "u">>, <<"n", "e", "t", ".", "r", "u">>,
      <<"o", "r", "g", ".", "r", "u">>, <<"e", "d", "u", ".", "r", "u">>, <<"g", "o", "v", ".", "r", "u">>, <<"i", "n", "t", ".", "r", "u">>, <<"m", "i", "l", ".", "r", "u">>,
      <<"s", "p", "b", ".", "r", "u">>, <<"m", "s", "k", ".", "r", "u">>, <<"c", "o", "m", ".", "c", "n">>, <<"n", "e", "t", ".", "c", "n">>, <<"o", "r", "g", ".", "c", "n">>,
      <<"e", "d", "u", ".", "c", "n">>, <<"g", "o", "v", ".", "c", "n">>, <<"m", "i", "l", ".", "c", "n">>, <<"a", "c", ".", "c", "n">>, <<"a", "h", ".", "c", "n">>,
      <<"b", "j", ".", "c", "n">>, <<"c", "q", ".", "c", "n">>, <<"f", "j", ".", "c", "n">>, <<"g", "d", ".", "c", "n">>, <<"g", "s", ".", "c", "n">>,
      <<"g", "z", ".", "c", "n">>, <<"g", "x", ".", "c", "n">>, <<"h", "a", ".", "c", "n">>, <<"h", "b", ".", "c", "n">>, <<"h", "e", ".", "c", "n">>,
      <<"h", "i", ".", "c", "n">>, <<"h", "k", ".", "c", "n">>, <<"h", "l", ".", "c", "n">>, <<"h", "n", ".", "c", "n">>, <<"j", "l", ".", "c", "n">>,
      <<"j", "s", ".", "c", "n">>, <<"j", "x", ".", "c", "n">>, <<"l", "n", ".", "c", "n">>, <<"m", "o", ".", "c", "n">>, <<"n", "m", ".", "c", "n">>,
      <<"n", "x", ".", "c", "n">>, <<"q", "h", ".", "c", "n">>, <<"s", "c", ".", "c", "n">>, <<"s", "d", ".", "c", "n">>, <<"s", "h", ".", "c", "n">>,
      <<"s", "n", ".", "c", "n">>, <<"s", "x", ".", "c", "n">>, <<"t", "j", ".", "c", "n">>, <<"t", "w", ".", "c", "n">>, <<"x", "j", ".", "c", "n">>,
      <<"x", "z", ".", "c", "n">>, <<"y", "n", ".", "c", "n">>, <<"z", "j", ".", "c", "n">>, <<"c", "o", "m", ".", "m", "x">>, <<"n", "e", "t", ".", "m", "x">>,
      <<"o", "r", "g", ".", "m", "x">>, <<"e", "d", "u", ".", "m", "x">>, <<"g", "o", "b", ".", "m", "x">>, <<"c", "o", "m", ".", "a", "r">>, <<"n", "e", "t", ".", "a", "r">>,
      <<"o", "r", "g", ".", "a", "r">>, <<"e", "d", "u", ".", "a", "r">>, <<"g", "o", "v", ".", "a", "r">>, <<"m", "i", "l", ".", "a", "r">>, <<"i", "n", "t", ".", "a", "r">>,
      <<"c", "o", "m", ".", "c", "l">>, <<"n", "e", "t", ".", "c", "l">>, <<"o", "r", "g", ".", "c", "l">>, <<"e", "d", "u", ".", "c", "l">>, <<"g", "o", "v", ".", "c", "l">>,
      <<"m", "i", "l", ".", "c", "l">>, <<"c", "o", "m", ".", "c", "o">>, <<"n", "e", "t", ".", "c", "o">>, <<"o", "r", "g", ".", "c", "o">>, <<"e", "d", "u", ".", "c", "o">>,
      <<"g", "o", "v", ".", "c", "o">>, <<"m", "i", "l", ".", "c", "o">>, <<"n", "o", "m", ".", "c", "o">>, <<"c", "o", "m", ".", "v", "e">>, <<"n", "e", "t", ".", "v", "e">>,
      <<"o", "r", "g", ".", "v", "e">>, <<"e", "d", "u", ".", "v", "e">>, <<"g", "o", "v", ".", "v", "e">>, <<"m", "i", "l", ".", "v", "e">>, <<"w", "e", "b", ".", "v", "e">>,
      <<"c", "o", "m", ".", "p", "e">>, <<"n", "e", "t", ".", "p", "e">>, <<"o", "r", "g", ".", "p", "e">>, <<"e", "d", "u", ".", "p", "e">>, <<"g", "o", "b", ".", "p", "e">>,
      <<"m", "i", "l", ".", "p", "e">>, <<"n", "o", "m", ".", "p", "e">>, <<"c", "o", "m", ".", "e", "c">>, <<"n", "e", "t", ".", "e", "c">>, <<"o", "r", "g", ".", "e", "c">>,
      <<"e", "d", "u", ".", "e", "c">>, <<"g", "o", "v", ".", "e", "c">>, <<"m", "i", "l", ".", "e", "c">>, <<"m", "e", "d", ".", "e", "c">>, <<"f", "i", "n", ".", "e", "c">>,
      <<"p", "r", "o", ".", "e", "c">>, <<"i", "n", "f", "o", ".", "e", "c">>, <<"c", "o", ".", "a", "t">>, <<"o", "r", ".", "a", "t">>, <<"a", "c", ".", "a", "t">>,
      <<"g", "v", ".", "a", "t">>, <<"p", "r", "i", "v", ".", "a", "t">>, <<"c", "o", ".", "b", "e">>, <<"a", "c", ".", "b", "e">>, <<"c", "o", ".", "d", "k">>,
      <<"a", "c", ".", "d", "k">>, <<"c", "o", ".", "i", "l">>, <<"n", "e", "t", ".", "i", "l">>, <<"o", "r", "g", ".", "i", "l">>, <<"a", "c", ".", "i", "l">>,
      <<"g", "o", "v", ".", "i", "l">>, <<"i", "d", "f", ".", "i", "l">>, <<"k", "1", "2", ".", "i", "l">>, <<"m", "u", "n", "i", ".", "i", "l">>, <<"c", "o", ".", "n", "o">>,
      <<"a", "c", ".", "n", "o">>, <<"p", "r", "i", "v", ".", "n", "o">>, <<"c", "o", ".", "p", "l">>, <<"n", "e", "t", ".", "p", "l">>, <<"o", "r", "g", ".", "p", "l">>,
      <<"e", "d", "u", ".", "p", "l">>, <<"g", "o", "v", ".", "p", "l">>, <<"m", "i", "l", ".", "p", "l">>, <<"n", "o", "m", ".", "p", "l">>, <<"c", "o", "m", ".", "p", "l">>,
      <<"c", "o", ".", "t", "h">>, <<"n", "e", "t", ".", "t", "h">>, <<"o", "r", "g", ".", "t", "h">>, <<"e", "d", "u", ".", "t", "h">>, <<"g", "o", "v", ".", "t", "h">>,
      <<"m", "i", "l", ".", "t", "h">>, <<"a", "c", ".", "t", "h">>, <<"i", "n", ".", "t", "h">>, <<"c", "o", ".", "k", "r">>, <<"n", "e", "t", ".", "k", "r">>,
      <<"o", "r", "g", ".", "k", "r">>, <<"e", "d", "u", ".", "k", "r">>, <<"g", "o", "v", ".", "k", "r">>, <<"m", "i", "l", ".", "k", "r">>, <<"a", "c", ".", "k", "r">>,
      <<"g", "o", ".", "k", "r">>, <<"n", "e", ".", "k", "r">>, <<"o", "r", ".", "k", "r">>, <<"p", "e", ".", "k", "r">>, <<"r", "e", ".", "k", "r">>,
      <<"s", "e", "o", "u", "l", ".", "k", "r">>, <<"k", "y", "o", "n", "g", "g", "i", ".", "k", "r">>, <<"c", "o", ".", "i", "d">>, <<"n", "e", "t", ".", "i", "d">>, <<"o", "r", "g", ".", "i", "d">>,
      <<"e", "d", "u", ".", "i", "d">>, <<"g", "o", "v", ".", "i", "d">>, <<"m", "i", "l", ".", "i", "d">>, <<"w", "e", "b", ".", "i", "d">>, <<"a", "c", ".", "i", "d">>,
      <<"s", "c", "h", ".", "i", "d">>, <<"c", "o", ".", "m", "a">>, <<"n", "e", "t", ".", "m", "a">>, <<"o", "r", "g", ".", "m", "a">>, <<"e", "d", "u", ".", "m", "a">>,
      <<"g", "o", "v", ".", "m", "a">>, <<"a", "c", ".", "m", "a">>, <<"p", "r", "e", "s", "s", ".", "m", "a">>, <<"c", "o", ".", "k", "e">>, <<"n", "e", "t", ".", "k", "e">>,
      <<"o", "r", "g", ".", "k", "e">>, <<"e", "d", "u", ".", "k", "e">>, <<"g", "o", "v", ".", "k", "e">>, <<"a", "c", ".", "k", "e">>, <<"g", "o", ".", "k", "e">>,
      <<"i", "n", "f", "o", ".", "k", "e">>, <<"m", "e", ".", "k", "e">>, <<"m", "o", "b", "i", ".", "k", "e">>, <<"s", "c", ".", "k", "e">>, <<"c", "o", ".", "u", "g">>,
      <<"n", "e", "t", ".", "u", "g">>, <<"o", "r", "g", ".", "u", "g">>, <<"e", "d", "u", ".", "u", "g">>, <<"g", "o", "v", ".", "u", "g">>, <<"a", "c", ".", "u", "g">>,
      <<"s", "c", ".", "u", "g">>, <<"g", "o", ".", "u", "g">>, <<"n", "e", ".", "u", "g">>, <<"o", "r", ".", "u", "g">>, <<"c", "o", ".", "t", "z">>,
      <<"n", "e", "t", ".", "t", "z">>, <<"o", "r", "g", ".", "t", "z">>, <<"e", "d", "u", ".", "t", "z">>, <<"g", "o", "v", ".", "t", "z">>, <<"a", "c", ".", "t", "z">>,
      <<"g", "o", ".", "t", "z">>, <<"h", "o", "t", "e", "l", ".", "t", "z">>, <<"i", "n", "f", "o", ".", "t", "z">>, <<"m", "e", ".", "t", "z">>, <<"m", "i", "l", ".", "t", "z">>,
      <<"m", "o", "b", "i", ".", "t", "z">>, <<"n", "e", ".", "t", "z">>, <<"o", "r", ".", "t", "z">>, <<"s", "c", ".", "t", "z">>, <<"t", "v", ".", "t", "z">> }

STOP_WORDS ==
    {
      <<"l", "o", "g", "i", "n">>, <<"s", "i", "g", "n", "i", "n">>, <<"s", "i", "g", "n">>, <<"r", "e", "g", "i", "s", "t", "e", "r">>,
      <<"s", "i", "g", "n", "u", "p">>, <<"a", "c", "c", "o", "u", "n", "t">>, <<"a", "u", "t", "h", "e", "n", "t", "i", "c", "a", "t", "i", "o", "n">>, <<"p", "a", "s", "s", "w", "o", "r", "d">>,
      <<"a", "c", "c", "e", "s", "s">>, <<"a", "u", "t", "h">>, <<"s", "e", "s", "s", "i", "o", "n">>, <<"a", "u", "t", "h", "e", "n", "t", "i", "c", "a", "t", "e">>,
      <<"c", "r", "e", "d", "e", "n", "t", "i", "a", "l", "s">>, <<"l", "o", "g", "o", "u", "t">>, <<"s", "i", "g", "n", "o", "u", "t">>, <<"p", "o", "r", "t", "a", "l">>,
      <<"d", "a", "s", "h", "b", "o", "a", "r", "d">>, <<"h", "o", "m", "e">>, <<"w", "e", "l", "c", "o", "m", "e">>, <<"p", "a", "g", "e">>,
      <<"s", "i", "t", "e">>, <<"s", "e", "c", "u", "r", "e">>, <<"m", "e", "m", "b", "e", "r">>, <<"u", "s", "e", "r">>,
      <<"p", "r", "o", "f", "i", "l", "e">>, <<"s", "e", "t", "t", "i", "n", "g", "s">>, <<"m", "e", "n", "u">>, <<"o", "v", "e", "r", "v", "i", "e", "w">>,
      <<"i", "n", "d", "e", "x">>, <<"m", "a", "i", "n">>, <<"s", "t", "a", "r", "t">>, <<"l", "a", "n", "d", "i", "n", "g">>,
      <<"f", "r", "e", "e">>, <<"c", "r", "e", "a", "t", "e">>, <<"n", "e", "w">>, <<"y", "o", "u", "r">>,
      <<"s", "p", "e", "c", "i", "a", "l">>, <<"o", "f", "f", "e", "r">>, <<"d", "e", "a", "l">>, <<"d", "i", "s", "c", "o", "u", "n", "t">>,
      <<"p", "r", "o", "m", "o", "t", "i", "o", "n">>, <<"n", "e", "w", "s", "l", "e", "t", "t", "e", "r">>, <<"h", "e", "l", "p">>, <<"s", "u", "p", "p", "o", "r", "t">>,
      <<"c", "o", "n", "t", "a", "c", "t">>, <<"a", "b", "o", "u", "t">>, <<"f", "a", "q">>, <<"t", "e", "r", "m", "s">>,
      <<"p", "r", "i", "v", "a", "c", "y">>, <<"c", "o", "o", "k", "i", "e">>, <<"s", "e", "r", "v", "i", "c", "e">>, <<"s", "e", "r", "v", "i", "c", "e", "s">>,
      <<"p", "r", "o", "d", "u", "c", "t", "s">>, <<"s", "h", "o", "p">>, <<"s", "t", "o", "r", "e">>, <<"c", "a", "r", "t">>,
      <<"c", "h", "e", "c", "k", "o", "u", "t">>, <<"o", "n", "l", "i", "n", "e">>, <<"w", "e", "b">>, <<"d", "i", "g", "i", "t", "a", "l">>,
      <<"m", "o", "b", "i", "l", "e">>, <<"m", "y">>, <<"p", "e", "r", "s", "o", "n", "a", "l">>, <<"p", "r", "i", "v", "a", "t", "e">>,
      <<"g", "e", "n", "e", "r", "a", "l">>, <<"d", "e", "f", "a", "u", "l", "t">>, <<"s", "t", "a", "n", "d", "a", "r", "d">>, <<"w", "e", "b", "s", "i", "t", "e">>,
      <<"s", "y", "s", "t", "e", "m">>, <<"a", "d", "m", "i", "n">>, <<"a", "d", "m", "i", "n", "i", "s", "t", "r", "a", "t", "o", "r">>, <<"p", "l", "a", "t", "f", "o", "r", "m">>,
      <<"g", "a", "t", "e", "w", "a", "y">>, <<"a", "p", "i">>, <<"i", "n", "t", "e", "r", "f", "a", "c", "e">>, <<"c", "o", "n", "s", "o", "l", "e">>,
      <<"t", "o", "d", "a", "y">>, <<"n", "o", "w">>, <<"c", "u", "r", "r", "e", "n", "t">>, <<"l", "a", "t", "e", "s", "t">>,
      <<"n", "e", "w", "e", "s", "t">>, <<"r", "e", "c", "e", "n", "t">>, <<"t", "h", "e">>, <<"a", "n", "d">>,
      <<"o", "r">>, <<"b", "u", "t">>, <<"t", "o">>, <<"u", "p">>,
      <<"i", "n", "l", "o", "g", "g", "e", "n">>, <<"r", "e", "g", "i", "s", "t", "r", "e", "r", "e", "n">>, <<"r", "e", "g", "i", "s", "t", "r", "a", "t", "i", "e">>, <<"a", "a", "n", "m", "e", "l", "d", "e", "n">>,
      <<"i", "n", "s", "c", "h", "r", "i", "j", "v", "e", "n">>, <<"u", "i", "t", "l", "o", "g", "g", "e", "n">>, <<"w", "a", "c", "h", "t", "w", "o", "o", "r", "d">>, <<"t", "o", "e", "g", "a", "n", "g">>,
      <<"a", "u", "t", "h", "e", "n", "t", "i", "c", "a", "t", "i", "e">>, <<"p", "o", "r", "t", "a", "a", "l">>, <<"o", "v", "e", "r", "z", "i", "c", "h", "t">>, <<"s", "t", "a", "r", "t", "p", "a", "g", "i", "n", "a">>,
      <<"w", "e", "l", "k", "o", "m">>, <<"p", "a", "g", "i", "n", "a">>, <<"b", "e", "v", "e", "i", "l", "i", "g", "d">>, <<"l", "i", "d">>,
      <<"g", "e", "b", "r", "u", "i", "k", "e", "r">>, <<"p", "r", "o", "f", "i", "e", "l">>, <<"i", "n", "s", "t", "e", "l", "l", "i", "n", "g", "e", "n">>, <<"b", "e", "g", "i", "n">>,
      <<"h", "o", "o", "f", "d", "p", "a", "g", "i", "n", "a">>, <<"g", "r", "a", "t", "i", "s">>, <<"n", "i", "e", "u", "w">>, <<"j", "o", "u", "w">>,
      <<"s", "c", "h", "r", "i", "j", "f">>, <<"n", "i", "e", "u", "w", "s", "b", "r", "i", "e", "f">>, <<"a", "a", "n", "b", "i", "e", "d", "i", "n", "g">>, <<"k", "o", "r", "t", "i", "n", "g">>,
      <<"s", "p", "e", "c", "i", "a", "a", "l">>, <<"a", "c", "t", "i", "e">>, <<"h", "u", "l", "p">>, <<"o", "n", "d", "e", "r", "s", "t", "e", "u", "n", "i", "n", "g">>,
      <<"v", "o", "o", "r", "w", "a", "a", "r", "d", "e", "n">>, <<"d", "i", "e", "n", "s", "t">>, <<"d", "i", "e", "n", "s", "t", "e", "n">>, <<"p", "r", "o", "d", "u", "c", "t", "e", "n">>,
      <<"w", "i", "n", "k", "e", "l">>, <<"b", "e", "s", "t", "e", "l", "l", "e", "n">>, <<"w", "i", "n", "k", "e", "l", "w", "a", "g", "e", "n">>, <<"d", "i", "g", "i", "t", "a", "a", "l">>,
      <<"m", "o", "b", "i", "e", "l">>, <<"m", "i", "j", "n">>, <<"p", "e", "r", "s", "o", "o", "n", "l", "i", "j", "k">>, <<"a", "l", "g", "e", "m", "e", "e", "n">>,
      <<"s", "t", "a", "n", "d", "a", "a", "r", "d">>, <<"s", "y", "s", "t", "e", "e", "m">>, <<"b", "e", "h", "e", "e", "r">>, <<"b", "e", "h", "e", "e", "r", "d", "e", "r">>,
      <<"v", "a", "n", "d", "a", "a", "g">>, <<"h", "u", "i", "d", "i", "g">>, <<"n", "i", "e", "u", "w", "s", "t", "e">>, <<"j", "e">>,
      <<"i", "n">>, <<"o", "p">>, <<"d", "e">>, <<"v", "a", "n">>,
      <<"o", "n", "s">>, <<"a", "l", "l", "e", "m", "a", "a", "l">> }

LowerLetters ==
    <<"a", "b", "c", "d", "e", "f", "g", "h", "i", "j", "k", "l", "m",
      "n", "o", "p", "q", "r", "s", "t", "u", "v", "w", "x", "y", "z">>
UpperLetters ==
    <<"A", "B", "C", "D", "E", "F", "G", "H", "I", "J", "K", "L", "M",
      "N", "O", "P", "Q", "R", "S", "T", "U", "V", "W", "X", "Y", "Z">>
AsciiDigits == {"0", "1", "2", "3", "4", "5", "6", "7", "8", "9"}
is_ascii_alphanumeric(c) ==
    \/ c \in AsciiDigits
    \/ \E i \in DOMAIN LowerLetters : c \in {LowerLetters[i], UpperLetters[i]}
\* char::is_alphanumeric: the letters and digits of any script.
is_alphanumeric(c) == is_ascii_alphanumeric(c) \/ c = "é"
to_lowercase(s) ==
    [i \in DOMAIN s |->
        IF \E k \in DOMAIN UpperLetters : UpperLetters[k] = s[i]
        THEN LowerLetters[CHOOSE k \in DOMAIN UpperLetters : UpperLetters[k] = s[i]]
        ELSE s[i]]
\* str::len: the length in bytes.
ByteLen(s) == Len(s) + Cardinality({i \in DOMAIN s : s[i] = "é"})

starts_with(s, p) == Len(s) >= Len(p) /\ SubSeq(s, 1, Len(p)) = p
ends_with(s, p) == Len(s) >= Len(p) /\ SubSeq(s, Len(s) - Len(p) + 1, Len(s)) = p
contains(s, p) == \E i \in 1..(Len(s) - Len(p) + 1) : SubSeq(s, i, i + Len(p) - 1) = p
\* str::find(c): the position of the first c, 0 when there is none.
find(s, c) ==
    IF \E i \in DOMAIN s : s[i] = c
    THEN CHOOSE i \in DOMAIN s : s[i] = c /\ \A j \in 1..(i - 1) : s[j] # c
    ELSE 0
\* s[..pos] at the first c, s itself when there is none.
CutAt(s, c) == IF find(s, c) = 0 THEN s ELSE SubSeq(s, 1, find(s, c) - 1)
RECURSIVE split(_, _)
split(s, c) ==
    IF find(s, c) = 0 THEN <<s>>
    ELSE <<SubSeq(s, 1, find(s, c) - 1)>> \o split(SubSeq(s, find(s, c) + 1, Len(s)), c)
RECURSIVE join(_, _)
join(parts, sep) ==
    IF Len(parts) = 0 THEN <<>>
    ELSE IF Len(parts) = 1 THEN parts[1]
    ELSE parts[1] \o sep \o join(Tail(parts), sep)

Http == <<"h", "t", "t", "p", ":", "/", "/">>
Https == <<"h", "t", "t", "p", "s", ":", "/", "/">>
Www == <<"w", "w", "w", ".">>

is_app_package_name(text) ==
    IF ~contains(text, <<".">>) THEN FALSE
    ELSE IF starts_with(text, Http) \/ starts_with(text, Https) THEN FALSE
    ELSE to_lowercase(split(text, ".")[1]) \in COMMON_TLDS

\* The host part after the protocol, www. and path have been removed, or ""
\* when it is no domain.
ValidDomain(domain) ==
    IF ~contains(domain, <<".">>) THEN <<>>
    ELSE IF \E i \in DOMAIN domain : ~(is_ascii_alphanumeric(domain[i]) \/ domain[i] \in {".", "-"}) THEN <<>>
    ELSE IF starts_with(domain, <<".">>) \/ ends_with(domain, <<".">>) \/ contains(domain, <<".", ".">>) THEN <<>>
    ELSE domain
\* The text left when the protocol, www. and the path, query and fragment
\* are removed from a lowercased URL.
HostPart(lowered) ==
    LET no_protocol == IF starts_with(lowered, Https) THEN strip_prefix(lowered, Https)
                       ELSE strip_prefix(lowered, Http)
    IN CutAt(CutAt(CutAt(strip_prefix(no_protocol, Www), "/"), "?"), "#")

extract_domain(url) ==
    IF url = <<>> THEN <<>>
    ELSE LET domain == to_lowercase(url)
             has_protocol == starts_with(domain, Http) \/ starts_with(domain, Https)
         IN IF ~has_protocol /\ is_app_package_name(domain) THEN <<>>
            ELSE ValidDomain(HostPart(domain))

extract_root_domain(domain) ==
    LET parts == split(domain, ".")
        n == Len(parts)
    IN IF n < 2 THEN domain
       ELSE IF n >= 3 /\ (parts[n - 1] \o <<".">> \o parts[n]) \in TWO_LEVEL_TLDS
            THEN join(SubSeq(parts, n - 2, n), <<".">>)
            ELSE join(SubSeq(parts, n - 1, n), <<".">>)

is_subdomain_of(domain1, domain2) ==
    IF ByteLen(domain1) <= ByteLen(domain2) THEN FALSE
    ELSE ends_with(domain1, <<".">> \o domain2)

domains_match(domain1, domain2) ==
    IF domain1 = <<>> \/ domain2 = <<>> THEN FALSE
    ELSE IF domain1 = domain2 THEN TRUE
    ELSE IF is_subdomain_of(domain1, domain2) \/ is_subdomain_of(domain2, domain1) THEN TRUE
    ELSE extract_root_domain(domain1) = extract_root_domain(domain2)

\* DomainWithPort: the domain as extract_domain gives it and the optional
\* port that follows the host; both empty when the URL does not parse.
NoDomain == [domain |-> <<>>, port |-> None]
\* The domain and port of host_port, the text "host" or "host:port"; host is
\* its validated host.
DomainWithPort(host, host_port) ==
    IF host = <<>> THEN NoDomain
    ELSE IF find(host_port, ":") = 0 THEN [domain |-> host, port |-> None]
    ELSE LET port == SubSeq(host_port, find(host_port, ":") + 1, Len(host_port))
         IN IF port = <<>> \/ \E i \in DOMAIN port : port[i] \notin AsciiDigits THEN NoDomain
            ELSE [domain |-> host, port |-> Some(port)]
SplitHostPort(host_port) == DomainWithPort(ValidDomain(CutAt(host_port, ":")), host_port)
extract_domain_with_port(url) ==
    IF url = <<>> THEN NoDomain
    ELSE IF ~(starts_with(to_lowercase(url), Http) \/ starts_with(to_lowercase(url), Https))
            /\ is_app_package_name(to_lowercase(url))
         THEN NoDomain
    ELSE SplitHostPort(HostPart(to_lowercase(url)))

\* split_whitespace
NonEmpty(parts) == SelectSeq(parts, LAMBDA w : w # <<>>)
extract_words(text) ==
    IF text = <<>> THEN <<>>
    ELSE LET lowered == to_lowercase(text)
             spaced == [i \in DOMAIN lowered |->
                          IF is_alphanumeric(lowered[i]) \/ lowered[i] = " " THEN lowered[i] ELSE " "]
         IN SelectSeq(NonEmpty(split(spaced, " ")),
                      LAMBDA word : ByteLen(word) > 3 /\ word \notin STOP_WORDS)

\* Take that keeps every item.
Take_all(items, n) == items

\* .map(|cred| cred.id.clone()).take(3).collect()
Take(items, n) == SubSeq(items, 1, IF Len(items) < n THEN Len(items) ELSE n)
IdsOf(creds) == [i \in DOMAIN creds |-> creds[i].id]
NoMatch == [matched_ids |-> <<>>, matched_priority |-> 0]

\* The best sub-priority of one credential over its URLs from the i-th on.
RECURSIVE BestPriority(_, _, _, _, _)

\* MatchItemUrl that keeps the first sub-priority a URL gave, unless a later
\* URL matches domain and port.
MatchItemUrl_first_kept(current, item_urls, i, info, best_priority, enable_subdomain_match) ==
    IF item_urls[i] = <<>> \/ info.domain = <<>>
    THEN BestPriority(current, item_urls, i + 1, best_priority, enable_subdomain_match)
    ELSE IF current.domain = info.domain /\ current.port = info.port THEN Some(1)
    ELSE LET exact == IF current.domain = info.domain /\ best_priority = None
                      THEN Some(2) ELSE best_priority
             sub == IF enable_subdomain_match /\ domains_match(current.domain, info.domain)
                       /\ exact = None
                    THEN Some(3) ELSE exact
         IN BestPriority(current, item_urls, i + 1, sub, enable_subdomain_match)

\* One turn of the loop over item_urls: info is the domain and port of the
\* i-th URL; a match of domain and port breaks out of the loop.
MatchItemUrl(current, item_urls, i, info, best_priority, enable_subdomain_match) ==
    IF item_urls[i] = <<>> \/ info.domain = <<>>
    THEN BestPriority(current, item_urls, i + 1, best_priority, enable_subdomain_match)
    ELSE IF current.domain = info.domain /\ current.port = info.port THEN Some(1)
    ELSE LET exact == IF current.domain = info.domain
                         /\ (best_priority = None \/ Unwrap(best_priority) > 2)
                      THEN Some(2) ELSE best_priority
             sub == IF enable_subdomain_match /\ domains_match(current.domain, info.domain)
                       /\ exact = None
                    THEN Some(3) ELSE exact
         IN BestPriority(current, item_urls, i + 1, sub, enable_subdomain_match)

BestPriority(current, item_urls, i, best_priority, enable_subdomain_match) ==
    IF i > Len(item_urls) THEN best_priority
    ELSE MatchItemUrl(current, item_urls, i, extract_domain_with_port(item_urls[i]),
                      best_priority, enable_subdomain_match)

\* if let Some(priority) = best_priority { filtered.push(...) }
PushMatch(cred, best_priority) ==
    IF IsSome(best_priority) THEN <<[credential |-> cred, priority |-> Unwrap(best_priority)]>>
    ELSE <<>>
\* The credentials with a URL match, each with its best sub-priority.
RECURSIVE UrlMatches(_, _, _, _)
UrlMatches(current, credentials, i, enable_subdomain_match) ==
    IF i > Len(credentials) THEN <<>>
    ELSE PushMatch(credentials[i],
                   IF credentials[i].item_urls = <<>> THEN None
                   ELSE BestPriority(current, credentials[i].item_urls, 1, None,
                                     enable_subdomain_match))
         \o UrlMatches(current, credentials, i + 1, enable_subdomain_match)

\* sort_by_key(|c| c.priority): a stable insertion sort.
RECURSIVE InsertByPriority(_, _)
InsertByPriority(sorted, c) ==
    IF sorted = <<>> THEN <<c>>
    ELSE IF sorted[Len(sorted)].priority <= c.priority THEN Append(sorted, c)
    ELSE Append(InsertByPriority(SubSeq(sorted, 1, Len(sorted) - 1), c), sorted[Len(sorted)])
RECURSIVE sort_by_key(_, _)
sort_by_key(items, i) ==
    IF i = 0 THEN <<>> ELSE InsertByPriority(sort_by_key(items, i - 1), items[i])
\* filter(|c| seen_ids.insert(c.credential.id.clone()))
UniqueById(items) ==
    IdsOf(SelectSeq([i \in DOMAIN items |-> [at |-> i, id |-> items[i].credential.id]],
                    LAMBDA e : \A j \in 1..(e.at - 1) : items[j].credential.id # e.id))

\* HasUrls that finds no credential to have URLs.
HasUrls_never(cred) == FALSE

\* SECURITY: a credential that has URLs defined.
HasUrls(cred) == cred.item_urls # <<>> /\ \E u \in DOMAIN cred.item_urls : cred.item_urls[u] # <<>>
SharesWord(words, cred_words) ==
    \E w \in DOMAIN words : \E c \in DOMAIN cred_words : words[w] = cred_words[c]
NameHasWord(cred, words) ==
    IsSome(cred.item_name) /\ SharesWord(words, extract_words(Unwrap(cred.item_name)))
\* Item-name fallback over the credentials without URLs.
NameMatchIds(credentials, words) ==
    Take(IdsOf(SelectSeq(credentials, LAMBDA cred : ~HasUrls(cred) /\ NameHasWord(cred, words))), 3)

\* The credentials of the best (least) priority found.
FilterByPriority(filtered) ==
    SelectSeq(filtered, LAMBDA c : \A i \in DOMAIN filtered : c.priority <= filtered[i].priority)
\* Sorted by priority, the first credential of each Id, at most three Ids.
UniqueMatchedIds(filtered_by_priority) ==
    Take(UniqueById(sort_by_key(filtered_by_priority, Len(filtered_by_priority))), 3)
\* MatchByText that matches nothing.
MatchByText_none(credentials, url_words) == NoMatch

\* Priority 4: text matching of a non-URL input over every credential.
MatchByText(credentials, url_words) ==
    LET text_match_ids ==
            Take(IdsOf(SelectSeq(credentials, LAMBDA cred : NameHasWord(cred, url_words))), 3)
    IN IF url_words # <<>> /\ text_match_ids # <<>>
       THEN [matched_ids |-> text_match_ids, matched_priority |-> 4]
       ELSE NoMatch
\* MatchByDomain that falls through to text matching when nothing matched.
MatchByDomain_falls_through(filtered, credentials, page_title, title_words, url_words) ==
    IF filtered # <<>>
    THEN [matched_ids |-> UniqueMatchedIds(FilterByPriority(filtered)), matched_priority |-> 2]
    ELSE IF page_title # <<>> /\ title_words # <<>> /\ NameMatchIds(credentials, title_words) # <<>>
         THEN [matched_ids |-> NameMatchIds(credentials, title_words), matched_priority |-> 3]
    ELSE IF url_words # <<>> /\ NameMatchIds(credentials, url_words) # <<>>
         THEN [matched_ids |-> NameMatchIds(credentials, url_words), matched_priority |-> 3]
    ELSE MatchByText(credentials, url_words)

\* Priority 2 and, when no URL matched, priority 3: page title, then URL words.
MatchByDomain(filtered, credentials, page_title, title_words, url_words) ==
    IF filtered # <<>>
    THEN [matched_ids |-> UniqueMatchedIds(FilterByPriority(filtered)), matched_priority |-> 2]
    ELSE IF page_title # <<>> /\ title_words # <<>> /\ NameMatchIds(credentials, title_words) # <<>>
         THEN [matched_ids |-> NameMatchIds(credentials, title_words), matched_priority |-> 3]
    ELSE IF url_words # <<>> /\ NameMatchIds(credentials, url_words) # <<>>
         THEN [matched_ids |-> NameMatchIds(credentials, url_words), matched_priority |-> 3]
    ELSE NoMatch
\* The ladder from the package name and the domain of the current URL on.
MatchFrom(matcher_input, is_package_name, current_domain_info) ==
    LET credentials == matcher_input.credentials
        current_url == matcher_input.current_url
        package_match_ids ==
            Take(IdsOf(SelectSeq(credentials,
                    LAMBDA cred : \E u \in DOMAIN cred.item_urls :
                                     cred.item_urls[u] # <<>> /\ cred.item_urls[u] = current_url)), 3)
        enable_subdomain_match == matcher_input.matching_mode \in {"default", "url_subdomain"}
    IN IF is_package_name /\ package_match_ids # <<>>
       THEN [matched_ids |-> package_match_ids, matched_priority |-> 1]
       ELSE IF ~is_package_name /\ current_domain_info.domain # <<>>
            THEN MatchByDomain(UrlMatches(current_domain_info, credentials, 1, enable_subdomain_match),
                               credentials, matcher_input.page_title,
                               extract_words(matcher_input.page_title), extract_words(current_url))
       ELSE MatchByText(credentials, extract_words(current_url))

filter_credentials(matcher_input) ==
    IF matcher_input.current_url = <<>> THEN NoMatch
    ELSE MatchFrom(matcher_input, is_app_package_name(matcher_input.current_url),
                   extract_domain_with_port(matcher_input.current_url))

\* ---- Matcher inputs ---------------------------------------------------
\* The texts of the inputs: URLs, a host with port, package names, plain
\* texts, item names.
Texts ==
    [ UrlBank |-> <<"h", "t", "t", "p", "s", ":", "/", "/", "b", "a", "n", "k", ".", "c", "o", "m">>,
      UrlBankPort |-> <<"h", "t", "t", "p", "s", ":", "/", "/", "b", "a", "n", "k", ".", "c", "o", "m", ":", "8">>,
      UrlMyBank |-> <<"h", "t", "t", "p", "s", ":", "/", "/", "m", "y", ".", "b", "a", "n", "k", ".", "c", "o", "m">>,
      UrlMyBankPort8 |-> <<"h", "t", "t", "p", "s", ":", "/", "/", "m", "y", ".", "b", "a", "n", "k", ".", "c", "o", "m", ":", "8">>,
      UrlMyBankPort9 |-> <<"h", "t", "t", "p", "s", ":", "/", "/", "m", "y", ".", "b", "a", "n", "k", ".", "c", "o", "m", ":", "9">>,
      UrlPayBank |-> <<"h", "t", "t", "p", "s", ":", "/", "/", "p", "a", "y", ".", "b", "a", "n", "k", ".", "c", "o", "m">>,
      UrlOther |-> <<"h", "t", "t", "p", "s", ":", "/", "/", "o", "t", "h", "e", "r", ".", "o", "r", "g">>,
      UrlMail |-> <<"h", "t", "t", "p", "s", ":", "/", "/", "w", "w", "w", ".", "m", "a", "i", "l", ".", "n", "l", "/", "x">>,
      UrlMyBankPath |-> <<"H", "T", "T", "P", ":", "/", "/", "w", "w", "w", ".", "M", "y", ".", "B", "a", "n", "k", ".", "c", "o", "m", ":", "8", "/", "a", "?", "b", "#", "c">>,
      UrlNasPort |-> <<"h", "t", "t", "p", ":", "/", "/", "n", "a", "s", ":", "8">>,
      HostBankPort |-> <<"b", "a", "n", "k", ".", "c", "o", "m", ":", "8">>,
      PackageBank |-> <<"c", "o", "m", ".", "b", "a", "n", "k", ".", "a", "p", "p">>,
      PackageInfo |-> <<"i", "n", "f", "o", ".", "b", "a", "n", "k", ".", "a", "p", "p">>,
      PlainText |-> <<"m", "a", "i", "l", " ", "b", "a", "n", "k">>,
      InvalidUrl |-> <<"i", "n", "v", "a", "l", "i", "d", "-", "u", "r", "l">>,
      NameBank |-> <<"M", "y", " ", "B", "a", "n", "k">>,
      NameMail |-> <<"M", "a", "i", "l">>,
      NameMailInfo |-> <<"M", "a", "i", "l", ".", "i", "n", "f", "o">> ]

MaxCredentials == 2
CurrentUrls ==
    { <<>>, Texts.UrlBank, Texts.UrlMyBank, Texts.UrlMyBankPort8, Texts.UrlMyBankPath, Texts.HostBankPort,
      Texts.UrlMail, Texts.UrlNasPort, Texts.PackageBank, Texts.PackageInfo, Texts.PlainText, Texts.InvalidUrl }
PageTitles == { <<>>, Texts.NameMail }
MatchingModes == { "default", "url_exact", "url_subdomain" }
\* Credentials without their Id: item name and item URLs.
CredentialKinds ==
    { [item_name |-> Some(Texts.NameBank), item_urls |-> <<>>],
      [item_name |-> Some(Texts.NameMailInfo), item_urls |-> <<>>],
      [item_name |-> Some(Texts.NameMail), item_urls |-> << <<>> >>],
      [item_name |-> Some(Texts.NameMail), item_urls |-> <<Texts.UrlBank>>],
      [item_name |-> None, item_urls |-> <<Texts.UrlBankPort>>],
      [item_name |-> Some(Texts.NameBank), item_urls |-> <<Texts.UrlPayBank, Texts.UrlMyBankPort8>>],
      [item_name |-> None, item_urls |-> <<Texts.UrlPayBank, Texts.UrlMyBankPort9, Texts.UrlMyBank>>],
      [item_name |-> Some(Texts.NameMail), item_urls |-> <<Texts.UrlOther>>],
      [item_name |-> None, item_urls |-> <<Texts.UrlNasPort>>],
      [item_name |-> Some(Texts.NameBank), item_urls |-> <<Texts.PackageBank>>] }
CredentialIds == <<<<"1">>, <<"2">>, <<"3">>, <<"4">>>>
\* Lists of credentials whose Ids are distinct, or all the same; and the
\* lists of one kind of credential under every Id, which hold more
\* candidates than a result may return.
CredentialLists ==
    UNION { { [i \in 1..n |-> [id |-> IF same THEN CredentialIds[1] ELSE CredentialIds[i],
                               item_name |-> kinds[i].item_name,
                               item_urls |-> kinds[i].item_urls,
                               username |-> None]] :
                kinds \in [1..n -> CredentialKinds], same \in BOOLEAN } :
            n \in 0..MaxCredentials }
    \cup { [i \in DOMAIN CredentialIds |-> [id |-> CredentialIds[i],
                                            item_name |-> kind.item_name,
                                            item_urls |-> kind.item_urls,
                                            username |-> None]] :
             kind \in CredentialKinds }
\* ignore_port is a field of the JSON input that CredentialMatcherInput does
\* not declare: serde drops it and filter_credentials never sees it.
MatcherInputs ==
    { [credentials |-> c, current_url |-> u, page_title |-> t, matching_mode |-> m, ignore_port |-> p] :
        c \in CredentialLists, u \in CurrentUrls, t \in PageTitles, m \in MatchingModes,
        p \in BOOLEAN }

InitMatch ==
    /\ pc = "start"
    /\ input \in MatcherInputs
    /\ output = NoMatch
    /\ applied = <<>>
    /\ replay = NoOutput

FilterCredentials ==
    /\ pc = "start"
    /\ output' = filter_credentials(input)
    /\ pc' = "matched"
    /\ UNCHANGED <<input, applied, replay>>

NextMatch == FilterCredentials
SpecMatch == InitMatch /\ [][NextMatch]_vars

(***************************************************************************)
(*                 Properties of the credential matcher                    *)
(***************************************************************************)
CurrentDomain == extract_domain_with_port(input.current_url)
DomainExtracted == ~is_app_package_name(input.current_url) /\ CurrentDomain.domain # <<>>
DistinctIds ==
    \A i, j \in DOMAIN input.credentials :
        i # j => input.credentials[i].id # input.credentials[j].id
Returned(i) == \E k \in DOMAIN output.matched_ids : output.matched_ids[k] = input.credentials[i].id

\* The sub-priority one item URL gives against the current domain: 1 domain
\* and port equal, 2 domain equal, 3 subdomain or shared root (when the mode
\* allows), 4 no match.
SubPriorityOfUrl(current, url) ==
    LET info == extract_domain_with_port(url)
    IN IF url = <<>> \/ info.domain = <<>> THEN 4
       ELSE IF info.domain = current.domain /\ info.port = current.port THEN 1
       ELSE IF info.domain = current.domain THEN 2
       ELSE IF input.matching_mode # "url_exact" /\ domains_match(current.domain, info.domain) THEN 3
       ELSE 4
Least(S) == CHOOSE p \in S : \A q \in S : p <= q
\* The best sub-priority of every credential: the least over its URLs.
BestSubs ==
    LET current == CurrentDomain
    IN [i \in DOMAIN input.credentials |->
          Least({4} \cup { SubPriorityOfUrl(current, input.credentials[i].item_urls[u]) :
                              u \in DOMAIN input.credentials[i].item_urls })]

\* C9: URL domain matching (priority 2) is the outcome exactly when the
\* domain extracts and some credential has a sub-priority; every Id it
\* returns is the Id of a credential whose best sub-priority is the least one
\* observed, so a credential with a worse one is never returned.
C9_OnlyBestSubPriority ==
    pc = "matched" =>
       LET best == BestSubs
           least == Least({4} \cup { best[i] : i \in DOMAIN best })
       IN /\ (DomainExtracted /\ least < 4) <=> output.matched_priority = 2
          /\ output.matched_priority = 2 =>
                /\ output.matched_ids # <<>>
                /\ \A k \in DOMAIN output.matched_ids : \E i \in DOMAIN input.credentials :
                      input.credentials[i].id = output.matched_ids[k] /\ best[i] = least
                /\ DistinctIds => \A i \in DOMAIN input.credentials : Returned(i) => best[i] = least

\* C9 witness: a credential whose second URL matches domain and port is
\* returned, and one that matches the domain with another port is not.
C9_Witness ==
    /\ pc = "matched" /\ output.matched_priority = 2 /\ DistinctIds
    /\ LET best == BestSubs
       IN \E i, j \in DOMAIN input.credentials :
             /\ best[i] = 1 /\ Returned(i)
             /\ SubPriorityOfUrl(CurrentDomain, input.credentials[i].item_urls[1]) = 3
             /\ best[j] = 2 /\ ~Returned(j)

\* Credential i has at least one non-empty item URL.
HasNonEmptyUrl(i) ==
    \E u \in DOMAIN input.credentials[i].item_urls : input.credentials[i].item_urls[u] # <<>>

\* C10: when the domain of current_url extracts, the outcome is priority 2,
\* priority 3 or no match; at priority 3 every returned Id is the Id of a
\* credential without a non-empty URL, and at priority 2 of one that matched
\* by URL domain, so a credential with a URL is returned only by its URL.
C10_UrlCredentialOnlyByUrl ==
    (pc = "matched" /\ DomainExtracted) =>
       /\ output.matched_priority \in {0, 2, 3}
       /\ output.matched_priority = 3 =>
             /\ \A k \in DOMAIN output.matched_ids : \E i \in DOMAIN input.credentials :
                   input.credentials[i].id = output.matched_ids[k] /\ ~HasNonEmptyUrl(i)
             /\ DistinctIds => \A i \in DOMAIN input.credentials : HasNonEmptyUrl(i) => ~Returned(i)
       /\ output.matched_priority = 2 =>
             LET best == BestSubs
             IN /\ \A k \in DOMAIN output.matched_ids : \E i \in DOMAIN input.credentials :
                      input.credentials[i].id = output.matched_ids[k] /\ best[i] < 4
                /\ DistinctIds => \A i \in DOMAIN input.credentials : Returned(i) => best[i] < 4

\* C10 witness: the item-name fallback returns a credential without URLs and
\* leaves out one with a URL whose item name is the page title.
C10_Witness ==
    /\ pc = "matched" /\ DomainExtracted /\ output.matched_priority = 3 /\ DistinctIds
    /\ \E i, j \in DOMAIN input.credentials :
          /\ ~HasNonEmptyUrl(i) /\ Returned(i)
          /\ HasNonEmptyUrl(j) /\ ~Returned(j)
          /\ input.credentials[j].item_name = Some(input.page_title)

\* The words of a text, as a set.
WordsOf(text) == { extract_words(text)[k] : k \in DOMAIN extract_words(text) }
\* Credential i has an item name sharing a full word with the text.
NameSharesWord(i, text) ==
    /\ IsSome(input.credentials[i].item_name)
    /\ WordsOf(Unwrap(input.credentials[i].item_name)) \cap WordsOf(text) # {}
\* No credential matches the current domain at any sub-priority.
NoDomainMatch == \A i \in DOMAIN input.credentials : BestSubs[i] = 4
\* No credential without URLs is named by a word of the page title or the URL.
NoNameFallback ==
    \A i \in DOMAIN input.credentials :
        HasNonEmptyUrl(i) \/ ~(NameSharesWord(i, input.page_title) \/ NameSharesWord(i, input.current_url))

\* C11: when current_url is no package name and its domain extracts, the
\* outcome is never priority 4 (nor 1): it is priority 2, 3 or no match, and
\* without a domain match and without an item-name fallback match it is the
\* empty result of priority 0.
C11_NoTextMatchAfterDomain ==
    (pc = "matched" /\ DomainExtracted) =>
       /\ output.matched_priority \notin {1, 4}
       /\ (NoDomainMatch /\ NoNameFallback) => output = NoMatch

\* C11 witness: the domain extracts, nothing matches by domain or by name
\* fallback, a credential with a URL is named by a word of the URL (text
\* matching would return it), and the result is empty.
C11_Witness ==
    /\ pc = "matched" /\ DomainExtracted /\ NoDomainMatch /\ NoNameFallback
    /\ \E i \in DOMAIN input.credentials : NameSharesWord(i, input.current_url)
    /\ output = NoMatch

(***************************************************************************)
(*                  vault_pruner: expiry of the trash                      *)
(***************************************************************************)
JBool(b) == [ty |-> "bool", v |-> b]
JNull == [ty |-> "null", v |-> <<>>]
\* Value::as_i64: a number written as one digit is an integer; any other
\* number text (a fraction such as 1.0) is none.
as_i64(value) ==
    IF value.ty = "number" /\ Len(value.v) = 1 /\ value.v[1] \in AsciiDigits
    THEN Some(to_digit(value.v[1])) ELSE None
as_bool(value) == IF value.ty = "bool" THEN Some(value.v) ELSE None
is_null(value) == value.ty = "null"

PruneStatsDefault ==
    [items_pruned |-> 0, field_values_pruned |-> 0, attachments_pruned |-> 0,
     totp_codes_pruned |-> 0, passkeys_pruned |-> 0]
EmptyPruneOutput == [success |-> TRUE, statements |-> <<>>, stats |-> PruneStatsDefault]

\* vault_pruner::parse_datetime: RFC 3339 first, then the SQLite form.
parse_datetime(s) ==
    LET rfc == parse_from_rfc3339(s)
    IN IF IsSome(rfc) THEN Some(with_timezone_utc(Unwrap(rfc))) ELSE parse_naive(s)

\* DateTime::<Utc>::MIN_UTC, the first day chrono can hold (1 January of
\* the year -262143), in days counted from "D" taken as 1 January 2024.
MIN_UTC_DAY == -96485015
\* now - Duration::days(days): none when the instant leaves chrono's range,
\* where the subtraction panics.
checked_sub_days(now, days) ==
    IF (now \div 24) - days < MIN_UTC_DAY THEN None ELSE Some(now - 24 * days)

\* now.format("%Y-%m-%dT%H:%M:%S%.3fZ")
format_utc(now) ==
    << CHOOSE d \in Dates : DayOf(d) = now \div 24, "T",
       CHOOSE h \in HourDigits : HourOf(h) = now % 24, "Z" >>

\* input.tables.iter().find(|t| t.name == name): the first table of the name.
find_table(tables, name) ==
    LET idx == {i \in DOMAIN tables : tables[i].name = name}
    IN IF idx = {} THEN None
       ELSE Some(tables[CHOOSE i \in idx : \A j \in idx : i <= j])

\* IsDeletedValue that takes no value for deleted.
IsDeletedValue_never(value) == FALSE

\* is_deleted.as_i64() == Some(1) || is_deleted.as_bool() == Some(true)
IsDeletedValue(value) == as_i64(value) = Some(1) \/ as_bool(value) = Some(TRUE)

\* The date of a DeletedAt value that is a string and parses.
DeletedDate(deleted_at) ==
    IF IsSome(as_str(deleted_at)) THEN parse_datetime(Unwrap(as_str(deleted_at))) ELSE None
\* ExpiredItemId that also expires an item deleted exactly at the cutoff.
ExpiredItemId_at_cutoff(item, cutoff_date) ==
    IF IsSome(record_get(item, "IsDeleted")) /\ IsDeletedValue(item["IsDeleted"]) THEN None
    ELSE IF ~IsSome(record_get(item, "DeletedAt")) THEN None
    ELSE IF is_null(item["DeletedAt"]) THEN None
    ELSE IF IsSome(DeletedDate(item["DeletedAt"])) /\ Unwrap(DeletedDate(item["DeletedAt"])) <= cutoff_date
         THEN get_record_id(item)
    ELSE None

\* One turn of the loop over items: the Id the item adds to
\* expired_item_ids, if it adds one.
ExpiredItemId(item, cutoff_date) ==
    IF IsSome(record_get(item, "IsDeleted")) /\ IsDeletedValue(item["IsDeleted"]) THEN None
    ELSE IF ~IsSome(record_get(item, "DeletedAt")) THEN None
    ELSE IF is_null(item["DeletedAt"]) THEN None
    ELSE IF IsSome(DeletedDate(item["DeletedAt"])) /\ Unwrap(DeletedDate(item["DeletedAt"])) < cutoff_date
         THEN get_record_id(item)
    ELSE None
RECURSIVE ExpiredItemIds(_, _, _)
ExpiredItemIds(items, i, cutoff_date) ==
    IF i > Len(items) THEN <<>>
    ELSE OptToSeq(ExpiredItemId(items[i], cutoff_date)) \o ExpiredItemIds(items, i + 1, cutoff_date)

\* count_related_records that counts the deleted records too.
count_related_records_all(records, fk_column, fk_value) ==
    Cardinality({ i \in DOMAIN records :
        /\ IsSome(record_get(records[i], fk_column))
        /\ as_str(records[i][fk_column]) = Some(fk_value) })

count_related_records(records, fk_column, fk_value) ==
    Cardinality({ i \in DOMAIN records :
        /\ IsSome(record_get(records[i], fk_column))
        /\ as_str(records[i][fk_column]) = Some(fk_value)
        /\ (IsSome(record_get(records[i], "IsDeleted")) => ~IsDeletedValue(records[i]["IsDeleted"])) })

\* The statements of the pruner: the table, the column of the WHERE clause
\* and whether the clause ends in "AND IsDeleted = 0".
PruneStatement(table, where_column, now_str, item_id) ==
    [sql |-> [verb |-> "UPDATE", table |-> table, set |-> <<"IsDeleted = 1", "UpdatedAt = ?">>,
              where |-> IF table = "Items" THEN <<where_column>>
                        ELSE <<where_column, "IsDeleted = 0">>],
     params |-> <<JStr(now_str), JStr(item_id)>>]

\* The child tables in the order the pruner visits them, each with its counter.
CHILD_TABLES ==
    << [name |-> "FieldValues", stat |-> "field_values_pruned"],
       [name |-> "Attachments", stat |-> "attachments_pruned"],
       [name |-> "TotpCodes", stat |-> "totp_codes_pruned"],
       [name |-> "Passkeys", stat |-> "passkeys_pruned"] >>

\* The statement and the count one child table adds for one expired item.
PushRelated(acc, child, related_count, now_str, item_id) ==
    IF related_count > 0
    THEN [statements |-> Append(acc.statements, PruneStatement(child.name, "ItemId = ?", now_str, item_id)),
          stats |-> [acc.stats EXCEPT ![child.stat] = @ + related_count]]
    ELSE acc
PruneRelated(tables, child, now_str, item_id, acc) ==
    IF IsSome(find_table(tables, child.name))
    THEN PushRelated(acc, child,
             count_related_records(Unwrap(find_table(tables, child.name)).records, "ItemId", item_id),
             now_str, item_id)
    ELSE acc
RECURSIVE PruneChildren(_, _, _, _, _)
PruneChildren(tables, ci, now_str, item_id, acc) ==
    IF ci > Len(CHILD_TABLES) THEN acc
    ELSE PruneChildren(tables, ci + 1, now_str, item_id,
             PruneRelated(tables, CHILD_TABLES[ci], now_str, item_id, acc))
\* for item_id in &expired_item_ids
RECURSIVE PruneItems(_, _, _, _, _)
PruneItems(tables, expired_item_ids, i, now_str, acc) ==
    IF i > Len(expired_item_ids) THEN acc
    ELSE PruneItems(tables, expired_item_ids, i + 1, now_str,
             PruneChildren(tables, 1, now_str, expired_item_ids[i],
                 [statements |-> Append(acc.statements,
                                        PruneStatement("Items", "Id = ?", now_str, expired_item_ids[i])),
                  stats |-> Bump(acc.stats, "items_pruned")]))

PruneExpired(tables, expired_item_ids, now_str) ==
    IF expired_item_ids = <<>> THEN EmptyPruneOutput
    ELSE [success |-> TRUE] @@
         PruneItems(tables, expired_item_ids, 1, now_str,
                    [statements |-> <<>>, stats |-> PruneStatsDefault])
\* prune_vault once current_time has parsed; cutoff_date is none when the
\* subtraction overflows.
PruneBefore(tables, now, cutoff_date) ==
    IF ~IsSome(cutoff_date) THEN Panic
    ELSE IF ~IsSome(find_table(tables, "Items")) THEN Ok(EmptyPruneOutput)
    ELSE Ok(PruneExpired(tables,
                ExpiredItemIds(Unwrap(find_table(tables, "Items")).records, 1, Unwrap(cutoff_date)),
                format_utc(now)))
PruneAt(prune_input, now) ==
    IF ~IsSome(now) THEN Err("General")
    ELSE PruneBefore(prune_input.tables, Unwrap(now),
                     checked_sub_days(Unwrap(now), prune_input.retention_days))
prune_vault(prune_input) == PruneAt(prune_input, parse_datetime(prune_input.current_time))

\* ---- Pruner inputs ----------------------------------------------------
MaxItems == 2
DefaultRetentionDays == 30
\* A retention, within u32, that reaches back beyond chrono's first day.
OverflowRetentionDays == 100000000

\* DeletedAt values against current_time "D" 1h and a retention of 30 days
\* (cutoff "D-30" 1h): before, at and after the cutoff, in the three forms
\* of a date-time; a date of today; and values that are no date-time.
Deleted ==
    [ Before |-> JStr(<<"D-30", "T", "0", "Z">>),
      BeforeZoned |-> JStr(<<"D-30", "T", "1", "+01:00">>),
      AtNaive |-> JStr(<<"D-30", " ", "1">>),
      AtZoned |-> JStr(<<"D-30", "T", "2", "+01:00">>),
      After |-> JStr(<<"D-30", "T", "2", "Z">>),
      Today |-> JStr(<<"D", "T", "0", "Z">>),
      Junk |-> JStr(<<"n", "/", "a">>),
      Number |-> JNum(<<"0">>) ]
DeletedAtColumns ==
    { NoCol, Col("DeletedAt", JNull) } \cup { Col("DeletedAt", Deleted[f]) : f \in DOMAIN Deleted }
IsDeletedColumns ==
    { NoCol, Col("IsDeleted", JNum(<<"0">>)), Col("IsDeleted", JNum(<<"1">>)),
      Col("IsDeleted", JBool(FALSE)), Col("IsDeleted", JBool(TRUE)) }
ItemRows ==
    { Col("Id", JStr(<<"a">>)) @@ d @@ Col("DeletedAt", Deleted.Before) : d \in IsDeletedColumns }
    \cup { Col("Id", JStr(<<"a">>)) @@ Col("IsDeleted", JNum(<<"0">>)) @@ at : at \in DeletedAtColumns }
    \cup { Col("Id", JStr(<<"b">>)) @@ Col("DeletedAt", at)
           : at \in {Deleted.BeforeZoned, Deleted.AtNaive, Deleted.Today} }
    \cup { Col("Id", JNum(<<"7">>)) @@ Col("IsDeleted", JNum(<<"0">>)) @@ Col("DeletedAt", Deleted.Before) }
ItemLists == { l \in UNION { [1..n -> ItemRows] : n \in 0..MaxItems } : UniqueIds(l) }

\* A row of a child table: its item and whether it is deleted already.
ChildRow(id, item_id, is_deleted) ==
    Col("Id", JStr(<<id>>)) @@ Col("ItemId", JStr(<<item_id>>)) @@ is_deleted
Table(name, records) == [name |-> name, records |-> records]
Live == Col("IsDeleted", JNum(<<"0">>))
Gone == Col("IsDeleted", JNum(<<"1">>))
\* The table sets around a list of items: Items alone, with child tables
\* before and after it, twice, and not at all.
TableSets(items) ==
    { << Table("Items", items) >>,
      << Table("Items", items), Table("FieldValues", <<ChildRow("c", "a", Live)>>) >>,
      << Table("FieldValues", <<ChildRow("c", "a", Live), ChildRow("d", "b", NoCol)>>),
         Table("Items", items),
         Table("Passkeys", <<ChildRow("p", "a", Col("IsDeleted", JBool(FALSE)))>>) >>,
      << Table("Items", items),
         Table("FieldValues", <<ChildRow("c", "a", Gone)>>),
         Table("Attachments", <<ChildRow("e", "a", Live), ChildRow("f", "a", Live)>>),
         Table("TotpCodes", <<>>),
         Table("Passkeys", <<ChildRow("p", "b", Col("IsDeleted", JBool(TRUE))),
                             ChildRow("q", "b", Live)>>) >>,
      << Table("Items", items), Table("Items", <<>>),
         Table("TotpCodes", <<ChildRow("t", "a", Live)>>) >>,
      << Table("FieldValues", <<ChildRow("c", "a", Live)>>) >> }

\* current_time and retention_days: the three forms of "D" 1h, a text that
\* is no date-time, no retention at all and a retention that overflows.
PruneClocks ==
    { [current_time |-> <<"D", "T", "1", "Z">>, retention_days |-> r]
      : r \in {0, DefaultRetentionDays, OverflowRetentionDays} }
    \cup { [current_time |-> t, retention_days |-> DefaultRetentionDays]
           : t \in { <<"D", " ", "1">>, <<"D", "T", "2", "+01:00">>, <<"n", "o", "w">> } }
PruneInputs ==
    { [tables |-> t, current_time |-> c.current_time, retention_days |-> c.retention_days]
      : t \in UNION { TableSets(l) : l \in ItemLists }, c \in PruneClocks }

InitPrune ==
    /\ pc = "start"
    /\ input \in PruneInputs
    /\ output = Pending
    /\ applied = <<>>
    /\ replay = NoOutput

PruneVault ==
    /\ pc = "start" /\ output = Pending
    /\ output' = prune_vault(input)
    /\ pc' = "pruned"
    /\ UNCHANGED <<input, applied, replay>>

\* The host executes a statement of the pruner on its database: the rows of
\* the table that the WHERE clause selects get IsDeleted = 1 and the new
\* UpdatedAt.  Items are selected by Id, child rows by ItemId when their
\* IsDeleted is 0.
SelectedBy(stmt, record) ==
    IF stmt.sql.table = "Items" THEN record_get(record, "Id") = Some(stmt.params[2])
    ELSE /\ record_get(record, "ItemId") = Some(stmt.params[2])
         /\ IsSome(record_get(record, "IsDeleted"))
         /\ record["IsDeleted"] \in {JNum(<<"0">>), JBool(FALSE)}
ApplyPruneToRecord(record, stmt) ==
    IF SelectedBy(stmt, record)
    THEN [c \in (DOMAIN record) \cup {"IsDeleted", "UpdatedAt"} |->
             IF c = "IsDeleted" THEN JNum(<<"1">>)
             ELSE IF c = "UpdatedAt" THEN stmt.params[1]
             ELSE record[c]]
    ELSE record
ApplyPruneStatement(tables, stmt) ==
    [t \in DOMAIN tables |->
        IF tables[t].name = stmt.sql.table
        THEN [tables[t] EXCEPT !.records = [r \in DOMAIN @ |-> ApplyPruneToRecord(@[r], stmt)]]
        ELSE tables[t]]
RECURSIVE ApplyPruneStatements(_, _, _)
ApplyPruneStatements(tables, statements, i) ==
    IF i > Len(statements) THEN tables
    ELSE ApplyPruneStatements(ApplyPruneStatement(tables, statements[i]), statements, i + 1)

\* The host executes the returned statements, in order, on the tables.
ApplyPrune ==
    /\ pc = "pruned" /\ IsOk(output)
    /\ applied' = ApplyPruneStatements(input.tables, output.val.statements, 1)
    /\ pc' = "applied"
    /\ UNCHANGED <<input, output, replay>>

\* prune_vault is called again on the pruned tables, with the same
\* current_time and retention_days.
PruneAgain ==
    /\ pc = "applied"
    /\ replay' = prune_vault([input EXCEPT !.tables = applied])
    /\ pc' = "pruned again"
    /\ UNCHANGED <<input, output, applied>>

NextPrune == PruneVault \/ ApplyPrune \/ PruneAgain
SpecPrune == InitPrune /\ [][NextPrune]_vars

(***************************************************************************)
(*                     Properties of the vault pruner                      *)
(***************************************************************************)
Pruned == pc = "pruned" /\ IsOk(output)
\* The records of the Items table the pruner reads: the first of that name.
PrunedItems ==
    IF \E i \in DOMAIN input.tables : input.tables[i].name = "Items"
    THEN input.tables[CHOOSE i \in DOMAIN input.tables :
                         /\ input.tables[i].name = "Items"
                         /\ \A j \in 1..(i - 1) : input.tables[j].name # "Items"].records
    ELSE <<>>
\* The instants of the DeletedAt values that are date-times, in hours from
\* "D" 0h, and the cutoff: current_time is "D" 1h.
DeletedInstant ==
    [ Before |-> -720, BeforeZoned |-> -720, AtNaive |-> -719, AtZoned |-> -719,
      After |-> -718, Today |-> 0 ]
CutoffInstant == 1 - 24 * input.retention_days
IsFalsey(item) ==
    "IsDeleted" \notin DOMAIN item \/ item["IsDeleted"] \in {JNum(<<"0">>), JBool(FALSE)}
DeletedBeforeCutoff(item) ==
    /\ "DeletedAt" \in DOMAIN item
    /\ \E f \in DOMAIN DeletedInstant :
          item["DeletedAt"] = Deleted[f] /\ DeletedInstant[f] < CutoffInstant
IsExpiring(item) == IsFalsey(item) /\ DeletedBeforeCutoff(item)
HasStringId(item, id) == "Id" \in DOMAIN item /\ item["Id"] = JStr(id)
\* The positions of the Items UPDATEs of the output that carry the Id.
ItemUpdates(id) ==
    { k \in DOMAIN output.val.statements :
        /\ output.val.statements[k].sql.table = "Items"
        /\ output.val.statements[k].params[2] = JStr(id) }
ItemIds == { <<"a">>, <<"b">> }

C13_AtMostThreeIds == pc = "matched" => Len(output.matched_ids) <= 3

\* C13 witness: four credentials of distinct Ids match by URL domain and
\* three Ids are returned.
C13_Witness ==
    /\ pc = "matched" /\ output.matched_priority = 2 /\ DistinctIds
    /\ Len(input.credentials) = 4 /\ Len(output.matched_ids) = 3
    /\ \A i \in DOMAIN input.credentials : BestSubs[i] < 4


(***************************************************************************)
(*                 Duplicates in the returned lists                        *)
(***************************************************************************)
\* The row a statement of the merge targets: its table and the Id its WHERE
\* clause names or the Id of the row it inserts (no Id when it has none).
TargetOf(stmt) ==
    [table |-> stmt.sql.table,
     id |-> IF stmt.sql.verb = "UPDATE" THEN Some(stmt.params[Len(stmt.params)])
            ELSE IF \E c \in DOMAIN stmt.sql.columns : stmt.sql.columns[c] = "Id"
                 THEN Some(stmt.params[CHOOSE c \in DOMAIN stmt.sql.columns : stmt.sql.columns[c] = "Id"])
                 ELSE None]
\* A replica is well formed: every record has a string Id, no two records
\* of a table share their Id and no two FieldValues their (ItemId, FieldKey).
WellFormedTables(tables) ==
    \A t \in DOMAIN tables :
        /\ \A i \in DOMAIN tables[t].records : HasId(tables[t].records[i])
        /\ \A i, j \in DOMAIN tables[t].records :
              i # j => /\ get_record_id(tables[t].records[i]) # get_record_id(tables[t].records[j])
                       /\ tables[t].name = "FieldValues" =>
                             get_composite_key(tables[t].records[i], <<"ItemId", "FieldKey">>)
                                # get_composite_key(tables[t].records[j], <<"ItemId", "FieldKey">>)
WellFormedMergeInput ==
    WellFormedTables(input.local_tables) /\ WellFormedTables(input.server_tables)

\* C14: for well-formed replicas the statements of merge_vaults never hold
\* two statements that target the same row, that is the same table and Id.
C14_NoTwoStatementsForOneRow ==
    WellFormedMergeInput =>
       \A k1, k2 \in DOMAIN output.statements :
          (k1 # k2 /\ IsSome(TargetOf(output.statements[k1]).id))
             => TargetOf(output.statements[k1]) # TargetOf(output.statements[k2])


(***************************************************************************)
(*                    Shuffle determinism of the merge                     *)
(***************************************************************************)
\* The orders a list of records can be put in.
Shuffles(records) ==
    { [i \in DOMAIN records |-> records[p[i]]] :
        p \in { q \in [DOMAIN records -> DOMAIN records] :
                  \A i, j \in DOMAIN records : i # j => q[i] # q[j] } }
\* The table lists that hold the records of every table in some order.
ShuffledTables(tables) ==
    { [t \in DOMAIN tables |-> [name |-> tables[t].name, records |-> r[t]]] :
        r \in { f \in [DOMAIN tables -> UNION { Shuffles(tables[t].records) : t \in DOMAIN tables }] :
                  \A t \in DOMAIN tables : f[t] \in Shuffles(tables[t].records) } }
ShuffledInputs ==
    { [local_tables |-> l, server_tables |-> sv] :
        l \in ShuffledTables(input.local_tables), sv \in ShuffledTables(input.server_tables) }
StatementSet(out) == { out.statements[k] : k \in DOMAIN out.statements }

\* C15: the merge of the input with the records of its tables in any other
\* order emits the same set of statements and the same statistics.
C15_ShuffleDeterminism ==
    pc = "merged" =>
       \A shuffled \in ShuffledInputs : \A out \in merge_vaults(shuffled) :
          StatementSet(out) = StatementSet(output) /\ out.stats = output.stats


(***************************************************************************)
(*                               Panics                                    *)
(***************************************************************************)
\* C16: no operation panics; prune_vault returns a PruneOutput or a typed
\* error for every current_time and every retention_days of the u32 range.
C16_NeverPanics == pc = "pruned" => output.tag \in {"Ok", "Err"}


(***************************************************************************)
(*                        Package-name routing                             *)
(***************************************************************************)
\* The Ids of the credentials at the (at most three) least positions of S.
RECURSIVE FirstIds(_, _)
FirstIds(S, n) ==
    IF S = {} \/ n = 0 THEN <<>>
    ELSE LET i == CHOOSE k \in S : \A j \in S : k <= j
         IN <<input.credentials[i].id>> \o FirstIds(S \ {i}, n - 1)
\* The credentials with an item URL equal to current_url.
ExactUrlCredentials ==
    { i \in DOMAIN input.credentials :
        \E u \in DOMAIN input.credentials[i].item_urls :
            input.credentials[i].item_urls[u] = input.current_url }
\* The credentials whose item name shares a word with current_url.
TextCredentials ==
    { i \in DOMAIN input.credentials : NameSharesWord(i, input.current_url) }

\* C17: for a package name the credentials with an item URL equal to it
\* are returned, the first three, at priority 1; when there is none the
\* outcome is that of text matching alone: the first three credentials
\* named by a word of the package name at priority 4, or no match.
C17_PackageNameRouting ==
    (pc = "matched" /\ is_app_package_name(input.current_url)) =>
       IF ExactUrlCredentials # {}
       THEN output = [matched_ids |-> FirstIds(ExactUrlCredentials, 3), matched_priority |-> 1]
       ELSE IF TextCredentials # {}
            THEN output = [matched_ids |-> FirstIds(TextCredentials, 3), matched_priority |-> 4]
            ELSE output = NoMatch

\* C17 witness: a package name that no item URL equals; text matching
\* returns a credential that has URLs, which priority 3 would have skipped.
C17_Witness ==
    /\ pc = "matched" /\ is_app_package_name(input.current_url)
    /\ ExactUrlCredentials = {} /\ output.matched_priority = 4
    /\ \E i \in DOMAIN input.credentials : HasNonEmptyUrl(i) /\ Returned(i)


(***************************************************************************)
(*                 The TLD segment of a package name                       *)
(***************************************************************************)
\* The segments of a text: its lowercased runs of letters and digits.
Segments(text) ==
    LET lowered == to_lowercase(text)
        spaced == [i \in DOMAIN lowered |-> IF is_alphanumeric(lowered[i]) THEN lowered[i] ELSE " "]
        parts == NonEmpty(split(spaced, " "))
    IN { parts[k] : k \in DOMAIN parts }
\* The segment of a package name before its first dot.
LeadingTld == to_lowercase(split(input.current_url, ".")[1])
\* The item name of credential i shares with current_url the leading TLD
\* segment and no other segment.
SharesOnlyTld(i) ==
    /\ IsSome(input.credentials[i].item_name)
    /\ Segments(Unwrap(input.credentials[i].item_name)) \cap Segments(input.current_url) = {LeadingTld}

\* C18: for a package name that no item URL equals, every returned Id is
\* the Id of a credential whose item name shares more with the package name
\* than its leading TLD segment; a credential sharing only the TLD is not
\* returned.
C18_NoTldMatch ==
    (pc = "matched" /\ is_app_package_name(input.current_url) /\ ExactUrlCredentials = {}) =>
       \A k \in DOMAIN output.matched_ids :
          \E i \in DOMAIN input.credentials :
             input.credentials[i].id = output.matched_ids[k] /\ ~SharesOnlyTld(i)


(***************************************************************************)
(*                        Protocol variations                              *)
(***************************************************************************)
\* current_url without its https:// prefix.
BareHost == strip_prefix(input.current_url, Https)
\* current_url is https://h for a host h: a domain without port or path.
IsHttpsHost ==
    /\ starts_with(input.current_url, Https)
    /\ BareHost # <<>> /\ ValidDomain(BareHost) = BareHost
\* The Ids returned for the input with another current_url.
MatchedIdsFor(url) == filter_credentials([input EXCEPT !.current_url = url]).matched_ids

\* C19: the credentials returned for https://h are those returned for
\* http://h and for the bare host h.
C19_ProtocolVariations ==
    (pc = "matched" /\ IsHttpsHost) =>
       /\ MatchedIdsFor(Http \o BareHost) = output.matched_ids
       /\ MatchedIdsFor(BareHost) = output.matched_ids


(***************************************************************************)
(*                        Title-only matching                              *)
(***************************************************************************)
\* The credentials whose item name contains a full word of page_title.
TitleCredentials ==
    { i \in DOMAIN input.credentials : NameSharesWord(i, input.page_title) }
\* Credential i is one of the first three of TitleCredentials.
AmongFirstThree(i) == Cardinality({ j \in TitleCredentials : j < i }) < 3

\* C20: when current_url is neither empty nor a package name and no domain
\* extracts from it, a credential whose item name contains a full word of
\* page_title is returned (as far as the three Ids of a result reach).
C20_TitleOnlyMatching ==
    (pc = "matched" /\ input.current_url # <<>> /\ ~is_app_package_name(input.current_url)
       /\ CurrentDomain.domain = <<>>) =>
       \A i \in TitleCredentials : AmongFirstThree(i) => Returned(i)


(***************************************************************************)
(*                       Single-label hostnames                            *)
(***************************************************************************)
\* The host of current_url, without protocol, www., port and path.
CurrentHost == CutAt(HostPart(to_lowercase(input.current_url)), ":")
\* current_url has a protocol and a host of one label, without a dot.
IsSingleLabelUrl ==
    /\ starts_with(to_lowercase(input.current_url), Http) \/ starts_with(to_lowercase(input.current_url), Https)
    /\ CurrentHost # <<>> /\ ~contains(CurrentHost, <<".">>)
    /\ \A k \in DOMAIN CurrentHost : is_ascii_alphanumeric(CurrentHost[k]) \/ CurrentHost[k] = "-"
\* Credential i is one of the first three with an item URL equal to current_url.
AmongFirstThreeExact(i) ==
    i \in ExactUrlCredentials /\ Cardinality({ j \in ExactUrlCredentials : j < i }) < 3

\* C21: a current_url with a protocol and a dot-free host extracts to a
\* non-empty domain, and a credential stored with the same URL is returned.
C21_SingleLabelHost ==
    (pc = "matched" /\ IsSingleLabelUrl) =>
       /\ CurrentDomain.domain # <<>>
       /\ \A i \in DOMAIN input.credentials : AmongFirstThreeExact(i) => Returned(i)


(***************************************************************************)
(*                             ignore_port                                 *)
(***************************************************************************)
\* The credentials with an item URL whose domain is that of current_url.
SameDomainCredentials ==
    { i \in DOMAIN input.credentials :
        \E u \in DOMAIN input.credentials[i].item_urls :
           /\ input.credentials[i].item_urls[u] # <<>>
           /\ extract_domain_with_port(input.credentials[i].item_urls[u]).domain = CurrentDomain.domain }
\* Credential i is one of the first three of SameDomainCredentials.
AmongFirstThreeSameDomain(i) ==
    i \in SameDomainCredentials /\ Cardinality({ j \in SameDomainCredentials : j < i }) < 3

\* C22: with ignore_port every credential with an item URL of the current
\* domain is returned whatever its port (as far as the three Ids of a result
\* reach); without it only the credentials of the best sub-priority are.
C22_IgnorePort ==
    (pc = "matched" /\ DomainExtracted) =>
       IF input.ignore_port
       THEN \A i \in DOMAIN input.credentials : AmongFirstThreeSameDomain(i) => Returned(i)
       ELSE DistinctIds =>
               \A i \in DOMAIN input.credentials :
                  Returned(i) => BestSubs[i] = Least({ BestSubs[j] : j \in DOMAIN input.credentials })


(***************************************************************************)
(*                     C ABI: the error response                           *)
(***************************************************************************)
\* The NUL character, written as a token.
Nul == "NUL"
\* message.replace('"', r#"\""#)
RECURSIVE EscapeQuotes(_)
EscapeQuotes(message) ==
    IF message = <<>> THEN <<>>
    ELSE (IF Head(message) = "\"" THEN <<"\\", "\"">> ELSE <<Head(message)>>)
         \o EscapeQuotes(Tail(message))
ErrorPrefix == <<"{", "\"", "s", "u", "c", "c", "e", "s", "s", "\"", ":", "f", "a", "l", "s", "e", ",", "\"", "e", "r", "r", "o", "r", "\"", ":", "\"">>
ErrorSuffix == <<"\"", "}">>
\* CString::new(s): an interior NUL gives the null pointer.
string_to_c_char(s) == IF \E i \in DOMAIN s : s[i] = Nul THEN None ELSE Some(s)
create_error_response(message) ==
    string_to_c_char(ErrorPrefix \o EscapeQuotes(message) \o ErrorSuffix)

\* How a JSON parser reads the response: the member "error" is a JSON
\* string, in which a backslash starts an escape, a control character is
\* not allowed raw, and the first unescaped quote ends the string; the
\* object must end right after it.
ControlChars == {"\n", Nul}
JsonUnescape(c) == IF c = "n" THEN "\n" ELSE c
RECURSIVE ParseErrorString(_, _, _)
ParseErrorString(text, i, acc) ==
    IF i > Len(text) THEN Err("EOF")
    ELSE IF text[i] = "\"" THEN (IF SubSeq(text, i + 1, Len(text)) = <<"}">>
                                THEN Ok([success |-> FALSE, error |-> acc])
                                ELSE Err("Syntax"))
    ELSE IF text[i] \in ControlChars THEN Err("ControlCharacter")
    ELSE IF text[i] = "\\"
         THEN IF i + 1 <= Len(text) /\ text[i + 1] \in {"\"", "\\", "n"}
              THEN ParseErrorString(text, i + 2, Append(acc, JsonUnescape(text[i + 1])))
              ELSE Err("InvalidEscape")
    ELSE ParseErrorString(text, i + 1, Append(acc, text[i]))
ParseErrorResponse(text) ==
    IF ~starts_with(text, ErrorPrefix) THEN Err("Syntax")
    ELSE ParseErrorString(text, Len(ErrorPrefix) + 1, <<>>)

\* ---- Error messages --------------------------------------------------
MaxMessage == 3
MessageChars == {"a", "n", "\"", "\\", "\n", Nul}
Messages == UNION { [1..n -> MessageChars] : n \in 0..MaxMessage }

InitFfi ==
    /\ pc = "start"
    /\ input \in Messages
    /\ output = None
    /\ applied = <<>>
    /\ replay = NoOutput

CreateErrorResponse ==
    /\ pc = "start"
    /\ output' = create_error_response(input)
    /\ pc' = "responded"
    /\ UNCHANGED <<input, applied, replay>>

NextFfi == CreateErrorResponse
SpecFfi == InitFfi /\ [][NextFfi]_vars

\* C23: the error response of every message is a JSON object that parses
\* to success = false and an error equal to the message.
C23_ErrorResponseWellFormed ==
    pc = "responded" =>
       /\ IsSome(output)
       /\ ParseErrorResponse(Unwrap(output)) = Ok([success |-> FALSE, error |-> input])


(***************************************************************************)
(*               Inserts of the merge and the local rows                   *)
(***************************************************************************)
\* The statement inserts into a table both replicas hold a row whose Id is
\* the Id of a local record of that table.
ReplacesLocalRow(stmt) ==
    /\ stmt.sql.verb = "INSERT OR REPLACE INTO"
    /\ \E cfg \in OnBothSides :
          /\ cfg.name = stmt.sql.table
          /\ \E i \in DOMAIN LocalRecords(cfg) :
                /\ HasId(LocalRecords(cfg)[i])
                /\ TargetOf(stmt).id = Some(JStr(Unwrap(get_record_id(LocalRecords(cfg)[i]))))

\* C24: no INSERT OR REPLACE of merge_vaults into a table present on both
\* sides carries the Id of a local record of that table.
C24_InsertNeverReplacesLocalRow ==
    pc # "start" => \A k \in DOMAIN output.statements : ~ReplacesLocalRow(output.statements[k])


(***************************************************************************)
(*                 Order of the statements of the merge                    *)
(***************************************************************************)
\* The place of a table in SYNCABLE_TABLES.
TableIndex(name) == CHOOSE t \in DOMAIN SYNCABLE_TABLES : SYNCABLE_TABLES[t].name = name
\* The place in its local table of the record an UPDATE names.
LocalPosition(stmt) ==
    LET records == Unwrap(TableLookup(input.local_tables, stmt.sql.table)).records
    IN CHOOSE i \in DOMAIN records :
          HasId(records[i]) /\ Some(JStr(Unwrap(get_record_id(records[i])))) = TargetOf(stmt).id
IsUpdate(stmt) == stmt.sql.verb = "UPDATE"
IsInsert(stmt) == stmt.sql.verb = "INSERT OR REPLACE INTO"

\* C25: the statements come table by table in the order of SYNCABLE_TABLES;
\* within a table no UPDATE follows an INSERT OR REPLACE, and the UPDATEs
\* come in the order of the local records they name.
C25_StatementOrder ==
    pc # "start" =>
       \A k1, k2 \in DOMAIN output.statements :
          k1 < k2 =>
             LET s1 == output.statements[k1]
                 s2 == output.statements[k2]
             IN /\ TableIndex(s1.sql.table) <= TableIndex(s2.sql.table)
                /\ s1.sql.table = s2.sql.table =>
                      /\ ~(IsInsert(s1) /\ IsUpdate(s2))
                      /\ (IsUpdate(s1) /\ IsUpdate(s2)) => LocalPosition(s1) < LocalPosition(s2)

\* C25 witness: the table lists name FieldValues before Items; Items gets
\* an UPDATE and then an INSERT, FieldValues after it two UPDATEs in the
\* order of the local records, which is not the order of the server's.
C25_Witness ==
    /\ pc = "merged" /\ Len(output.statements) = 4
    /\ input.local_tables[1].name = "FieldValues" /\ input.server_tables[1].name = "FieldValues"
    /\ output.statements[1].sql.table = "Items" /\ IsUpdate(output.statements[1])
    /\ output.statements[2].sql.table = "Items" /\ IsInsert(output.statements[2])
    /\ output.statements[3].sql.table = "FieldValues" /\ IsUpdate(output.statements[3])
    /\ output.statements[4].sql.table = "FieldValues" /\ IsUpdate(output.statements[4])
    /\ TargetOf(output.statements[3]).id = Some(JStr(<<"b">>))
    /\ get_record_id(input.server_tables[1].records[1]) = Some(<<"a">>)


(***************************************************************************)
(*                  Composite keys as tuples of strings                    *)
(***************************************************************************)
\* The values of the composite key columns of a record, as a tuple.
KeyTuple(cfg, record) ==
    [c \in DOMAIN cfg.composite_key_columns |-> TextOf(record, cfg.composite_key_columns[c])]
\* The local record an UPDATE names.
LocalRecordOf(stmt) ==
    Unwrap(TableLookup(input.local_tables, stmt.sql.table)).records[LocalPosition(stmt)]

\* C26: under composite-key matching a local and a server record whose
\* (ItemId, FieldKey) tuples differ are never matched: every UPDATE carries
\* the key tuple of the local record it names, and when no server record
\* has the key tuple of a local record (and no other table is merged), the
\* statistics count no record as matched.
C26_MatchedOnlyByEqualTuple ==
    pc # "start" =>
       \A cfg \in OnBothSides :
          uses_composite_key(cfg) =>
             /\ \A k \in DOMAIN output.statements :
                   (IsUpdate(output.statements[k]) /\ output.statements[k].sql.table = cfg.name) =>
                      KeyTuple(cfg, RowOf(output.statements[k]))
                         = KeyTuple(cfg, LocalRecordOf(output.statements[k]))
             /\ (/\ OnBothSides = {cfg}
                 /\ \A i \in DOMAIN LocalRecords(cfg) : \A j \in DOMAIN ServerRecords(cfg) :
                       KeyTuple(cfg, LocalRecords(cfg)[i]) # KeyTuple(cfg, ServerRecords(cfg)[j]))
                 => output.stats.records_from_local + output.stats.records_from_server = 0


(***************************************************************************)
(*                Order of the statements of the pruner                    *)
(***************************************************************************)
\* The Ids of the expiring items, in the order of the Items table.
RECURSIVE ExpiringIdsFrom(_)
ExpiringIdsFrom(i) ==
    IF i > Len(PrunedItems) THEN <<>>
    ELSE (IF IsExpiring(PrunedItems[i]) /\ HasId(PrunedItems[i])
          THEN <<Unwrap(get_record_id(PrunedItems[i]))>> ELSE <<>>)
         \o ExpiringIdsFrom(i + 1)
\* The input holds the table, and the first table of the name holds a record
\* of the item that is not deleted.
HasLiveChild(name, id) ==
    \E t \in DOMAIN input.tables :
       /\ input.tables[t].name = name
       /\ \A u \in 1..(t - 1) : input.tables[u].name # name
       /\ \E r \in DOMAIN input.tables[t].records :
             /\ TextOf(input.tables[t].records[r], "ItemId") = id
             /\ "ItemId" \in DOMAIN input.tables[t].records[r]
             /\ IsFalsey(input.tables[t].records[r])
\* current_time "D" 1h in the form the statements carry.
NormalisedNow == <<"D", "T", "1", "Z">>
\* What a statement is expected to be: its table and its two parameters.
Expect(table, id) == [table |-> table, params |-> <<JStr(NormalisedNow), JStr(id)>>]
ExpectedBlock(id) ==
    <<Expect("Items", id)>>
    \o SelectSeq(<<Expect("FieldValues", id), Expect("Attachments", id),
                   Expect("TotpCodes", id), Expect("Passkeys", id)>>,
                 LAMBDA e : HasLiveChild(e.table, id))
RECURSIVE ExpectedBlocks(_)
ExpectedBlocks(ids) ==
    IF ids = <<>> THEN <<>> ELSE ExpectedBlock(Head(ids)) \o ExpectedBlocks(Tail(ids))

\* C27: the statements are, item by item in the order of the expiring
\* items, the Items UPDATE followed by one UPDATE for each of FieldValues,
\* Attachments, TotpCodes and Passkeys, in this order, that is present and
\* holds a record of the item that is not deleted; every statement carries
\* the normalised current_time and the Id of the item.
C27_PruneStatementOrder ==
    Pruned =>
       [k \in DOMAIN output.val.statements |->
           [table |-> output.val.statements[k].sql.table,
            params |-> output.val.statements[k].params]]
          = ExpectedBlocks(ExpiringIdsFrom(1))

\* C27 witness: two expiring items; the first has deleted FieldValues only
\* and live Attachments, the second a live Passkey next to a deleted one.
C27_Witness ==
    /\ Pruned /\ Len(output.val.statements) = 4
    /\ output.val.statements[1].sql.table = "Items"
    /\ output.val.statements[2].sql.table = "Attachments"
    /\ output.val.statements[3].sql.table = "Items"
    /\ output.val.statements[4].sql.table = "Passkeys"
    /\ \E t \in DOMAIN input.tables : input.tables[t].name = "FieldValues"


(***************************************************************************)
(*                       Idempotence of the pruner                         *)
(***************************************************************************)
\* C28: prune_vault on the tables its own statements were applied to, with
\* the same current_time and retention_days, returns no statement and
\* statistics that are all zero.
C28_PruneIdempotent == pc = "pruned again" => replay = Ok(EmptyPruneOutput)

\* C28 witness: the first call returned statements for an item and for a
\* child table of it, and the second call has returned.
C28_Witness ==
    /\ pc = "pruned again" /\ IsOk(output)
    /\ \E k \in DOMAIN output.val.statements : output.val.statements[k].sql.table = "Items"
    /\ \E k \in DOMAIN output.val.statements : output.val.statements[k].sql.table # "Items"
    /\ applied # input.tables


(***************************************************************************)
(*                 Conservation of the merge statistics                    *)
(***************************************************************************)
\* The local records the statistics account for, from the t-th syncable
\* table on: the records with an Id of a table both replicas hold, every
\* record of a table only the local replica holds.
RECURSIVE AccountedLocalRecords(_)
AccountedLocalRecords(t) ==
    IF t > Len(SYNCABLE_TABLES) THEN 0
    ELSE LET l == TableLookup(input.local_tables, SYNCABLE_TABLES[t].name)
             sv == TableLookup(input.server_tables, SYNCABLE_TABLES[t].name)
         IN (IF ~IsSome(l) THEN 0
             ELSE IF IsSome(sv)
                  THEN Cardinality({ i \in DOMAIN Unwrap(l).records : HasId(Unwrap(l).records[i]) })
                  ELSE Len(Unwrap(l).records))
            + AccountedLocalRecords(t + 1)

\* C29: records_from_local + records_from_server + records_created_locally
\* is the number of local records accounted for, and conflicts equals
\* records_from_server.
C29_StatisticsConserved ==
    pc # "start" =>
       /\ output.stats.records_from_local + output.stats.records_from_server
             + output.stats.records_created_locally = AccountedLocalRecords(1)
       /\ output.stats.conflicts = output.stats.records_from_server

\* C29 witness: a table on both sides with a local record without an Id,
\* which no counter counts, next to one the server wins.
C29_Witness ==
    /\ pc = "merged" /\ output.stats.records_from_server = 1
    /\ \E cfg \in OnBothSides :
          /\ Len(LocalRecords(cfg)) = 2
          /\ \E i \in DOMAIN LocalRecords(cfg) : ~HasId(LocalRecords(cfg)[i])


(***************************************************************************)
(*                      domains_match on its own                           *)
(***************************************************************************)
\* Extracted domains: a domain, subdomains of it, a domain that ends in
\* its letters, another domain, a public suffix of two labels with domains
\* under it, one label, and the empty string.
DomainTexts ==
    [ Bank |-> <<"b", "a", "n", "k", ".", "c", "o", "m">>,
      MyBank |-> <<"m", "y", ".", "b", "a", "n", "k", ".", "c", "o", "m">>,
      PayBank |-> <<"p", "a", "y", ".", "b", "a", "n", "k", ".", "c", "o", "m">>,
      XBank |-> <<"x", "b", "a", "n", "k", ".", "c", "o", "m">>,
      Other |-> <<"o", "t", "h", "e", "r", ".", "o", "r", "g">>,
      CoUk |-> <<"c", "o", ".", "u", "k">>,
      ACoUk |-> <<"a", ".", "c", "o", ".", "u", "k">>,
      BACoUk |-> <<"b", ".", "a", ".", "c", "o", ".", "u", "k">>,
      BCoUk |-> <<"b", ".", "c", "o", ".", "u", "k">>,
      Uk |-> <<"u", "k">>,
      Empty |-> <<>> ]
Domains == { DomainTexts[n] : n \in DOMAIN DomainTexts }

InitDomains ==
    /\ pc = "start"
    /\ input \in Domains \X Domains
    /\ output = FALSE
    /\ applied = <<>>
    /\ replay = NoOutput

DomainsMatch ==
    /\ pc = "start"
    /\ output' = domains_match(input[1], input[2])
    /\ pc' = "compared"
    /\ UNCHANGED <<input, applied, replay>>

NextDomains == DomainsMatch
SpecDomains == InitDomains /\ [][NextDomains]_vars

\* C30: domains_match gives the same answer for (d1, d2) and (d2, d1), and
\* it matches only domains of the same registrable root domain, so never a
\* domain and a bare public suffix.
C30_SymmetricSameRoot ==
    pc = "compared" =>
       /\ output = domains_match(input[2], input[1])
       /\ output => extract_root_domain(input[1]) = extract_root_domain(input[2])

====
